---- MODULE Spec2Model ----
(***************************************************************************)
(* Verification model of squads-go: the client side of the Squads multisig *)
(* protocol.  The operations are modelled in groups, each with its own     *)
(* specification over the same variables:                                  *)
(*   SpecExecute      pkg/transaction/execute.go   ExecuteProposal         *)
(*   SpecVote         pkg/transaction/approve.go   VoteOnProposal          *)
(*   SpecOperations   execute, vote and the transaction create command,    *)
(*                    each under a caller's deadline                       *)
(*   SpecExecuteRace  ExecuteProposal and the external program's verdict   *)
(*   SpecThreshold    ExecuteProposal on the records of a threshold        *)
(*   SpecCompile      the message compiler and its wire encoding           *)
(*   SpecCompileInstructions  MessageAccountKeys.CompileInstructions       *)
(*   SpecCodec        the TransactionMessage encoder / decoder             *)
(*   SpecExpand       the accounts ExecuteProposal appends from a message  *)
(*   SpecCreate       the multisig create command                          *)
(*   SpecTransfer     uint64ToLEBytes and the transfer instruction data    *)
(*   SpecExecuteAccounts  the account list of the execute instruction      *)
(*   SpecResolve      CompileKeys on instruction lists naming a key often  *)
(*   SpecExtract      the compiler on lists of several lookup tables       *)
(*   SpecPropose      the transaction create command on every index        *)
(*   SpecApprove      the transaction approve command and its report       *)
(*   SpecInfo         the recent-transactions loop of the info command     *)
(*   SpecLarge        the encoder on lists around 255 entries              *)
(***************************************************************************)
EXTENDS Integers, Sequences, FiniteSets, TLC

VARIABLES
    multisigAccount,  \* the Multisig record held by the external record store
    proposal,         \* the Proposal record held by the external record store
    now,              \* the caller's wall clock (time.Now()), in seconds
    pc,               \* position of the invocation: "idle" | "done" | "encoded" | "decoded" | "expanded" | "built" | "resolved" | "listing"
    outcome,          \* what the invocation returned to its caller
    submitted,        \* instructions handed to client.SendTransaction, in order
    calls,            \* the calls on external collaborators the invocation made, in order
    deadline,         \* the call during which the caller's deadline elapsed, or "never"
    verdict,          \* what the external program did with the submission, once known
    request,          \* the inputs of a command or of the compiler
    txMsg,            \* the TransactionMessage being encoded
    wire,             \* the encoder's result: its error and the bytes written
    decoded           \* the decoder's result on the bytes it was fed

lifecycleVars ==
    <<multisigAccount, proposal, now, outcome, submitted, calls, deadline, verdict>>
messageVars == <<request, txMsg, wire, decoded>>
vars == <<lifecycleVars, messageVars, pc>>

None == "none"

Range(s) == {s[i] : i \in DOMAIN s}

-----------------------------------------------------------------------------
(* Bounds of the model.                                                    *)

\* Largest timestamp the external program has written into a proposal.
MaxTime == 2
\* Largest time-lock (seconds) a multisig carries.
MaxTimeLock == 1

-----------------------------------------------------------------------------
(* Accounts, permissions, proposal status.                                 *)

\* Member keys of the multisig, and one key that is not a member.
Members == {"m1", "m2"}
Outsider == "x1"
Keys == Members \cup {Outsider}

PermissionPropose == 1
PermissionVote == 2
PermissionExecute == 4
PermissionFull == 7
PermMasks == 0..PermissionFull

\* mask & bit # 0, for bit a power of two
HasBit(mask, bit) == (mask \div bit) % 2 = 1

\* The variants of ProposalStatus the client distinguishes; "Unknown" stands
\* for any value that is none of the seven generated variant types.
Statuses ==
    {"Draft", "Active", "Rejected", "Approved", "Executing", "Executed",
     "Cancelled", "Unknown"}

\* Each member is in at most one of the three vote sets (the external
\* program keeps it so).
VoteSets ==
    {v \in [approved : SUBSET Members, rejected : SUBSET Members,
            cancelled : SUBSET Members] :
        /\ v.approved \cap v.rejected = {}
        /\ v.approved \cap v.cancelled = {}
        /\ v.rejected \cap v.cancelled = {}}

NoVotes == [approved |-> {}, rejected |-> {}, cancelled |-> {}]

NoOutcome == [op |-> "none", caller |-> "none", action |-> "none", err |-> "none"]

-----------------------------------------------------------------------------
(* The caller's deadline                                                   *)

Never == "never"

\* Position in order of the call named name.
CallIndex(order, name) == CHOOSE i \in DOMAIN order : order[i] = name

\* The calls at or after the one during which the deadline elapses that are
\* made with the caller's context, among the first n calls of order.
CallsCancelled(order, honours, n, dl) ==
    IF dl = Never THEN {}
    ELSE {h \in CallIndex(order, dl)..n : order[h] \in honours}

Earliest(hs) == CHOOSE h \in hs : \A g \in hs : h <= g

\* What an invocation returns and which calls it makes: without a deadline
\* the error err after the first n calls of order; with one, the first call
\* made with the caller's context once the deadline has elapsed returns the
\* context's error, and a call made with context.Background() runs on.
UnderDeadline(order, honours, err, n, dl) ==
    IF CallsCancelled(order, honours, n, dl) = {}
    THEN [err |-> err, calls |-> SubSeq(order, 1, n)]
    ELSE [err |-> "Timeout",
          calls |-> SubSeq(order, 1, Earliest(CallsCancelled(order, honours, n, dl)))]

-----------------------------------------------------------------------------
(* ExecuteProposal                                                         *)

\* The points at which a collaborator (RPC read, account decoding,
\* submission) can fail; "none" when every one of them succeeds.
ExecuteFaults ==
    {"none", "wsConnect", "fetchMultisig", "fetchProposal",
     "txAccountMissing", "txDecode", "txNoInstructions", "blockhash", "send"}

\* _, isApproved := proposal.Status.(*ProposalStatusApproved)
isApprovedMutant(p) == p.status \in {"Approved", "Active"}
isApproved(p) == p.status = "Approved"

timelockEnd(p, ms) == p.timestamp + ms.timeLock

\* time.Now().Before(timelockEnd) && multisigAccount.TimeLock > 0
TimelockBlocksMutant(p, ms, t) == t <= timelockEnd(p, ms) /\ ms.timeLock > 0
TimelockBlocks(p, ms, t) == t < timelockEnd(p, ms) /\ ms.timeLock > 0

\* the loop over multisigAccount.Members
hasExecutePermissionMutant(ms, executor) ==
    \E k \in DOMAIN ms.members : k = executor
hasExecutePermission(ms, executor) ==
    \E k \in DOMAIN ms.members :
        k = executor /\ HasBit(ms.members[k], PermissionExecute)

\* The error ExecuteProposal returns, "ok" when it submits and succeeds.
\* The checks run in the order of the code; the first failing one returns.
ExecuteResultMutant(ms, p, t, executor, fault) ==
    IF fault = "wsConnect" THEN "WebSocketFailed"
    ELSE IF fault = "fetchMultisig" THEN "FetchMultisigFailed"
    ELSE IF fault = "fetchProposal" THEN "FetchProposalFailed"
    ELSE IF TimelockBlocks(p, ms, t) THEN "TimelockNotElapsed"
    ELSE IF ~hasExecutePermission(ms, executor) THEN "NoExecutePermission"
    ELSE IF fault = "txAccountMissing" THEN "TransactionAccountInvalid"
    ELSE IF fault = "txDecode" THEN "TransactionDecodeFailed"
    ELSE IF fault = "txNoInstructions" THEN "NoInstructions"
    ELSE IF fault = "blockhash" THEN "BlockhashFailed"
    ELSE IF fault = "send" THEN "SendFailed"
    ELSE "ok"
ExecuteResult(ms, p, t, executor, fault) ==
    IF fault = "wsConnect" THEN "WebSocketFailed"
    ELSE IF fault = "fetchMultisig" THEN "FetchMultisigFailed"
    ELSE IF fault = "fetchProposal" THEN "FetchProposalFailed"
    ELSE IF ~isApproved(p) THEN "NotApproved"
    ELSE IF TimelockBlocks(p, ms, t) THEN "TimelockNotElapsed"
    ELSE IF ~hasExecutePermission(ms, executor) THEN "NoExecutePermission"
    ELSE IF fault = "txAccountMissing" THEN "TransactionAccountInvalid"
    ELSE IF fault = "txDecode" THEN "TransactionDecodeFailed"
    ELSE IF fault = "txNoInstructions" THEN "NoInstructions"
    ELSE IF fault = "blockhash" THEN "BlockhashFailed"
    ELSE IF fault = "send" THEN "SendFailed"
    ELSE "ok"

\* client.SendTransaction is reached only when every earlier step passed;
\* a failing send has still handed the transaction to the RPC node.
ExecuteReachesSend(err) == err \in {"ok", "SendFailed"}

\* The calls of ExecuteProposal on its collaborators, in program order.
ExecuteCallOrder ==
    <<"ws.Connect", "fetchMultisigAccount", "fetchProposalAccount",
      "GetAccountInfo", "GetLatestBlockhash", "SendTransaction">>

\* Those that are passed ctx; the two fetch helpers use context.Background().
ExecuteCallsWithCtx ==
    {"ws.Connect", "GetAccountInfo", "GetLatestBlockhash", "SendTransaction"}

\* How many of the calls are made before ExecuteProposal returns err.
ExecuteCallCount(err) ==
    CASE err = "WebSocketFailed" -> 1
      [] err = "FetchMultisigFailed" -> 2
      [] err \in {"FetchProposalFailed", "NotApproved", "TimelockNotElapsed",
                  "NoExecutePermission"} -> 3
      [] err \in {"TransactionAccountInvalid", "TransactionDecodeFailed",
                  "NoInstructions"} -> 4
      [] err = "BlockhashFailed" -> 5
      [] ExecuteReachesSend(err) -> 6

ExecuteOutcome(ms, p, t, executor, fault, dl) ==
    UnderDeadline(ExecuteCallOrder, ExecuteCallsWithCtx,
                  ExecuteResult(ms, p, t, executor, fault),
                  ExecuteCallCount(ExecuteResult(ms, p, t, executor, fault)), dl)

\* The invocation got as far as its submission call.
Submits(r) ==
    \E i \in DOMAIN r.calls :
        r.calls[i] \in {"SendTransaction", "SendAndConfirmTransaction"}

ExecuteReturns(r, executor, dl) ==
    /\ outcome' = [op |-> "execute", caller |-> executor,
                   action |-> "execute", err |-> r.err]
    /\ submitted' =
            IF Submits(r)
            THEN Append(submitted, [kind |-> "execute", signer |-> executor])
            ELSE submitted
    /\ calls' = r.calls
    /\ deadline' = dl

ExecuteProposal(executor, fault, dl) ==
    /\ pc = "idle"
    /\ ExecuteReturns(ExecuteOutcome(multisigAccount, proposal, now, executor, fault, dl),
                      executor, dl)
    /\ pc' = "done"
    /\ UNCHANGED <<multisigAccount, proposal, now, verdict, messageVars>>

\* The wall clock advances between the moment the records were written and
\* the moment the command is run.
Tick ==
    /\ pc = "idle"
    /\ now < MaxTime + MaxTimeLock + 1
    /\ now' = now + 1
    /\ UNCHANGED <<multisigAccount, proposal, pc, outcome, submitted, calls,
                   deadline, verdict, messageVars>>

InitExecute ==
    /\ multisigAccount \in [members : [Members -> PermMasks],
                            timeLock : 0..MaxTimeLock]
    /\ proposal \in [status : Statuses, timestamp : 0..MaxTime,
                     votes : {NoVotes}]
    /\ now = 0
    /\ pc = "idle"
    /\ outcome = NoOutcome
    /\ submitted = <<>>
    /\ calls = <<>> /\ deadline = None /\ verdict = None
    /\ request = None /\ txMsg = None /\ wire = None /\ decoded = None

NextExecute ==
    \/ Tick
    \/ \E executor \in Keys, fault \in ExecuteFaults :
            ExecuteProposal(executor, fault, Never)

SpecExecute == InitExecute /\ [][NextExecute]_vars

-----------------------------------------------------------------------------
(* VoteOnProposal                                                          *)

\* input.Action as the caller gives it; "" selects the default.
VoteActions == {"", "approve", "reject", "cancel", "veto"}

VoteFaults ==
    {"none", "wsConnect", "fetchMultisig", "multisigMissing", "fetchProposal",
     "proposalMissing", "blockhash", "send"}

\* action := input.Action; if action == "" { action = "approve" }
EffectiveAction(a) == IF a = "" THEN "approve" ELSE a

\* The error VoteOnProposal returns, "ok" when it submits and succeeds.
\* The function reads the multisig and proposal accounts only to see that
\* they exist; it decodes neither, so no field of them reaches a check.
VoteResult(ms, p, voter, a, fault) ==
    IF EffectiveAction(a) \notin {"approve", "reject", "cancel"} THEN "InvalidAction"
    ELSE IF fault = "wsConnect" THEN "WebSocketFailed"
    ELSE IF fault = "fetchMultisig" THEN "FetchMultisigFailed"
    ELSE IF fault = "multisigMissing" THEN "MultisigNotFound"
    ELSE IF fault = "fetchProposal" THEN "FetchProposalFailed"
    ELSE IF fault = "proposalMissing" THEN "ProposalNotFound"
    ELSE IF fault = "blockhash" THEN "BlockhashFailed"
    ELSE IF fault = "send" THEN "SendFailed"
    ELSE "ok"

VoteReachesSend(err) == err \in {"ok", "SendFailed"}

\* The calls of VoteOnProposal on its collaborators, in program order; each
\* is passed ctx.
VoteCallOrder ==
    <<"ws.Connect", "GetAccountInfo multisig", "GetAccountInfo proposal",
      "GetLatestBlockhash", "SendTransaction">>

\* How many of the calls are made before VoteOnProposal returns err.
VoteCallCount(err) ==
    CASE err = "InvalidAction" -> 0
      [] err = "WebSocketFailed" -> 1
      [] err \in {"FetchMultisigFailed", "MultisigNotFound"} -> 2
      [] err \in {"FetchProposalFailed", "ProposalNotFound"} -> 3
      [] err = "BlockhashFailed" -> 4
      [] VoteReachesSend(err) -> 5

VoteOutcome(ms, p, voter, a, fault, dl) ==
    UnderDeadline(VoteCallOrder, Range(VoteCallOrder),
                  VoteResult(ms, p, voter, a, fault),
                  VoteCallCount(VoteResult(ms, p, voter, a, fault)), dl)

VoteReturns(r, voter, a, dl) ==
    /\ outcome' = [op |-> "vote", caller |-> voter,
                   action |-> EffectiveAction(a), err |-> r.err]
    /\ submitted' =
            IF Submits(r)
            THEN Append(submitted, [kind |-> EffectiveAction(a), signer |-> voter])
            ELSE submitted
    /\ calls' = r.calls
    /\ deadline' = dl

VoteOnProposal(voter, a, fault, dl) ==
    /\ pc = "idle"
    /\ VoteReturns(VoteOutcome(multisigAccount, proposal, voter, a, fault, dl),
                   voter, a, dl)
    /\ pc' = "done"
    /\ UNCHANGED <<multisigAccount, proposal, now, verdict, messageVars>>

InitVote ==
    /\ multisigAccount \in [members : [Members -> PermMasks], timeLock : {0}]
    /\ proposal \in [status : Statuses, timestamp : {0}, votes : VoteSets]
    /\ now = 0
    /\ pc = "idle"
    /\ outcome = NoOutcome
    /\ submitted = <<>>
    /\ calls = <<>> /\ deadline = None /\ verdict = None
    /\ request = None /\ txMsg = None /\ wire = None /\ decoded = None

NextVote ==
    \E voter \in Keys, a \in VoteActions, fault \in VoteFaults :
        VoteOnProposal(voter, a, fault, Never)

SpecVote == InitVote /\ [][NextVote]_vars

-----------------------------------------------------------------------------
(* runCreateTransaction: the transaction create command (propose)          *)

ProposeFaults ==
    {"none", "wsConnect", "fetchMultisig", "balanceRead", "balanceLow",
     "blockhash", "send", "statusRead", "statusErr"}

\* the loop over multisigAccount.Members: member.Permissions.Mask&1 != 0
isMemberMutant(ms, payer) ==
    \E k \in DOMAIN ms.members : k = payer
isMember(ms, payer) ==
    \E k \in DOMAIN ms.members :
        k = payer /\ HasBit(ms.members[k], PermissionPropose)

\* The log.Fatalf the command ends in, "ok" when it runs to its last line.
\* A failed balance read is logged as a warning and the command goes on; so
\* does it after a failed status read or a status that carries an error.
ProposeResult(ms, payer, fault) ==
    IF fault = "wsConnect" THEN "WebSocketFailed"
    ELSE IF fault = "fetchMultisig" THEN "FetchMultisigFailed"
    ELSE IF ~isMember(ms, payer) THEN "NotProposer"
    ELSE IF fault = "balanceLow" THEN "InsufficientBalance"
    ELSE IF fault = "blockhash" THEN "BlockhashFailed"
    ELSE IF fault = "send" THEN "SendFailed"
    ELSE "ok"

\* The calls of runCreateTransaction on its collaborators, in program order.
ProposeCallOrder ==
    <<"ws.Connect", "fetchMultisigAccount", "getAccountBalance",
      "GetLatestBlockhash", "SendAndConfirmTransaction", "GetSignatureStatuses">>

\* The --timeout flag is read and dropped: every call is made with
\* context.Background().
ProposeCallsWithCtx == {}

\* How many of the calls are made before the command ends with err.
ProposeCallCount(err) ==
    CASE err = "WebSocketFailed" -> 1
      [] err \in {"FetchMultisigFailed", "NotProposer"} -> 2
      [] err = "InsufficientBalance" -> 3
      [] err = "BlockhashFailed" -> 4
      [] err = "SendFailed" -> 5
      [] err = "ok" -> 6

ProposeOutcome(ms, payer, fault, dl) ==
    UnderDeadline(ProposeCallOrder, ProposeCallsWithCtx,
                  ProposeResult(ms, payer, fault),
                  ProposeCallCount(ProposeResult(ms, payer, fault)), dl)

\* instructions := {vaultTxCreateIx, proposalCreateIx} and, with --approve,
\* approveIx
ProposeInstructions(autoApprove) ==
    IF autoApprove THEN "create+approve" ELSE "create"

\* multisig.GetTransactionPDA / GetProposalPDA: the address derived from the
\* multisig address and a transaction index.
TransactionPDA(index) == [seed |-> "transaction", index |-> index]
ProposalPDA(index) == [seed |-> "proposal", index |-> index]

\* transactionIndex := multisigAccount.TransactionIndex + 1, the two
\* addresses derived from it, and the instructions of the one transaction:
\* vaultTxCreateIx, proposalCreateIx and, with --approve, approveIx.
ProposeTransactionMutant(ms, payer, autoApprove) ==
    <<[name |-> "VaultTransactionCreate",
       account |-> TransactionPDA(ms.transactionIndex + 1),
       TransactionIndex |-> None, signer |-> payer],
      [name |-> "ProposalCreate",
       account |-> ProposalPDA(ms.transactionIndex + 1),
       TransactionIndex |-> ms.transactionIndex, signer |-> payer]>>
    \o (IF autoApprove
        THEN <<[name |-> "ProposalApprove",
                account |-> ProposalPDA(ms.transactionIndex + 1),
                TransactionIndex |-> None, signer |-> payer]>>
        ELSE <<>>)
ProposeTransaction(ms, payer, autoApprove) ==
    <<[name |-> "VaultTransactionCreate",
       account |-> TransactionPDA(ms.transactionIndex + 1),
       TransactionIndex |-> None, signer |-> payer],
      [name |-> "ProposalCreate",
       account |-> ProposalPDA(ms.transactionIndex + 1),
       TransactionIndex |-> ms.transactionIndex + 1, signer |-> payer]>>
    \o (IF autoApprove
        THEN <<[name |-> "ProposalApprove",
                account |-> ProposalPDA(ms.transactionIndex + 1),
                TransactionIndex |-> None, signer |-> payer]>>
        ELSE <<>>)

\* What the command reports: log.Fatalf exits with code 1 before the banner;
\* otherwise the banner is printed and the command returns (exit code 0).
ProposeReturns(ms, r, payer, autoApprove, fault, dl) ==
    /\ outcome' = [op |-> "propose", caller |-> payer,
                   action |-> ProposeInstructions(autoApprove), err |-> r.err,
                   fault |-> fault,
                   exit |-> IF r.err = "ok" THEN 0 ELSE 1,
                   banner |-> r.err = "ok"]
    /\ submitted' =
            IF Submits(r)
            THEN Append(submitted,
                        [kind |-> ProposeInstructions(autoApprove), signer |-> payer,
                         instructions |-> ProposeTransaction(ms, payer, autoApprove)])
            ELSE submitted
    /\ calls' = r.calls
    /\ deadline' = dl

runCreateTransaction(payer, autoApprove, fault, dl) ==
    /\ pc = "idle"
    /\ ProposeReturns(multisigAccount,
                      ProposeOutcome(multisigAccount, payer, fault, dl),
                      payer, autoApprove, fault, dl)
    /\ pc' = "done"
    /\ UNCHANGED <<multisigAccount, proposal, now, verdict, messageVars>>

-----------------------------------------------------------------------------
(* The three operations, each under a caller's deadline                    *)

\* One member with any permission mask beside one with none or all of them.
OperationsMembers ==
    {m \in [Members -> PermMasks] : m["m2"] \in {0, PermissionFull}}

InitOperations ==
    /\ multisigAccount \in [members : OperationsMembers,
                            timeLock : 0..MaxTimeLock,
                            transactionIndex : {0}]
    /\ proposal \in [status : Statuses, timestamp : {0}, votes : {NoVotes}]
    /\ now = 0
    /\ pc = "idle"
    /\ outcome = NoOutcome
    /\ submitted = <<>>
    /\ calls = <<>> /\ deadline = None /\ verdict = None
    /\ request = None /\ txMsg = None /\ wire = None /\ decoded = None

NextOperations ==
    \/ \E executor \in Keys, fault \in ExecuteFaults,
            dl \in {Never} \cup Range(ExecuteCallOrder) :
            ExecuteProposal(executor, fault, dl)
    \/ \E voter \in Keys, a \in VoteActions, fault \in VoteFaults,
            dl \in {Never} \cup Range(VoteCallOrder) :
            VoteOnProposal(voter, a, fault, dl)
    \/ \E payer \in Keys, autoApprove \in BOOLEAN, fault \in ProposeFaults,
            dl \in {Never} \cup Range(ProposeCallOrder) :
            runCreateTransaction(payer, autoApprove, fault, dl)

SpecOperations == InitOperations /\ [][NextOperations]_vars

-----------------------------------------------------------------------------
(* The transaction create command on a multisig with earlier transactions  *)

MaxTransactionIndex == 2

InitPropose ==
    /\ multisigAccount \in [members : [Members -> PermMasks],
                            timeLock : {0},
                            transactionIndex : 0..MaxTransactionIndex]
    /\ proposal = [status |-> "Active", timestamp |-> 0, votes |-> NoVotes]
    /\ now = 0
    /\ pc = "idle"
    /\ outcome = NoOutcome
    /\ submitted = <<>>
    /\ calls = <<>> /\ deadline = None /\ verdict = None
    /\ request = None /\ txMsg = None /\ wire = None /\ decoded = None

NextPropose ==
    \E payer \in Keys, autoApprove \in BOOLEAN, fault \in ProposeFaults :
        runCreateTransaction(payer, autoApprove, fault, Never)

SpecPropose == InitPropose /\ [][NextPropose]_vars

-----------------------------------------------------------------------------
(* ExecuteProposal beside the other members                                *)

\* client.SendTransaction returns the signature as soon as the RPC node has
\* taken the transaction ("it may take a few seconds to confirm"); the
\* external program processes it afterwards, against the proposal as it is
\* then.  Another member may have cancelled an Approved proposal since
\* ExecuteProposal read it.
StatusWhenProcessed(p) ==
    IF p.status = "Approved" THEN {"Approved", "Cancelled"} ELSE {p.status}

ProgramVerdict(status) ==
    /\ pc = "done"
    /\ outcome.op = "execute"
    /\ submitted # <<>>
    /\ verdict = None
    /\ status \in StatusWhenProcessed(proposal)
    /\ verdict' = IF status = "Approved" THEN "applied" ELSE "rejected"
    /\ UNCHANGED <<multisigAccount, proposal, now, pc, outcome, submitted,
                   calls, deadline, messageVars>>

NextExecuteRace ==
    \/ NextExecute
    \/ \E status \in Statuses : ProgramVerdict(status)

SpecExecuteRace == InitExecute /\ [][NextExecuteRace]_vars

-----------------------------------------------------------------------------
(* ExecuteProposal on the records of a multisig with a threshold           *)

ThresholdMembers == {"m1", "m2", "m3"}

\* Every member may propose and vote; some may also execute.
ThresholdMasks == {PermissionFull, PermissionPropose + PermissionVote}

\* The statuses the external program leaves on a proposal with the given
\* approvals: Approved or later exactly when the approvals have reached the
\* threshold.
RecordStatuses(threshold, approved) ==
    IF Cardinality(approved) >= threshold
    THEN {"Approved", "Executed"}
    ELSE IF approved = {} THEN {"Draft", "Active"} ELSE {"Active"}

ThresholdProposals(threshold) ==
    {p \in [status : Statuses, timestamp : 0..MaxTime,
            votes : [approved : SUBSET ThresholdMembers, rejected : {{}},
                     cancelled : {{}}]] :
        p.status \in RecordStatuses(threshold, p.votes.approved)}

InitThreshold ==
    /\ multisigAccount \in [members : [ThresholdMembers -> ThresholdMasks],
                            timeLock : 0..MaxTimeLock,
                            threshold : 1..Cardinality(ThresholdMembers)]
    /\ proposal \in ThresholdProposals(multisigAccount.threshold)
    /\ now = 0
    /\ pc = "idle"
    /\ outcome = NoOutcome
    /\ submitted = <<>>
    /\ calls = <<>> /\ deadline = None /\ verdict = None
    /\ request = None /\ txMsg = None /\ wire = None /\ decoded = None

NextThreshold ==
    \/ Tick
    \/ \E executor \in ThresholdMembers \cup {Outsider}, fault \in ExecuteFaults :
            ExecuteProposal(executor, fault, Never)

SpecThreshold == InitThreshold /\ [][NextThreshold]_vars

-----------------------------------------------------------------------------
(* runApproveTransaction: the transaction approve command                  *)

\* The ProposalVoteOutput VoteOnProposal returns: it sets Signature,
\* ProposalPDA and Action; Approvals and Threshold keep Go's zero value.
ProposalVoteOutput(ms, p, a) ==
    [Action |-> EffectiveAction(a), Approvals |-> 0, Threshold |-> 0]

\* if output.Approvals >= int(output.Threshold) { "reached approval
\* threshold" } else { remainingApprovals := Threshold - Approvals }
ApproveReport(output) ==
    IF output.Approvals >= output.Threshold
    THEN [reached |-> TRUE, remaining |-> 0]
    ELSE [reached |-> FALSE, remaining |-> output.Threshold - output.Approvals]

\* log.Fatalf on an error of VoteOnProposal, else the banner and the report.
ApproveReturns(ms, p, voter, err) ==
    /\ outcome' =
            IF err = "ok"
            THEN [op |-> "approve", caller |-> voter, action |-> "approve",
                  err |-> err, exit |-> 0]
                    @@ ApproveReport(ProposalVoteOutput(ms, p, "approve"))
            ELSE [op |-> "approve", caller |-> voter, action |-> "approve",
                  err |-> err, exit |-> 1, reached |-> FALSE, remaining |-> 0]
    /\ submitted' =
            IF VoteReachesSend(err)
            THEN Append(submitted, [kind |-> "approve", signer |-> voter])
            ELSE submitted
    /\ calls' = SubSeq(VoteCallOrder, 1, VoteCallCount(err))

runApproveTransaction(voter, fault) ==
    /\ pc = "idle"
    /\ ApproveReturns(multisigAccount, proposal, voter,
                      VoteResult(multisigAccount, proposal, voter, "approve", fault))
    /\ pc' = "done"
    /\ UNCHANGED <<multisigAccount, proposal, now, deadline, verdict, messageVars>>

InitApprove ==
    /\ multisigAccount \in [members : [ThresholdMembers -> ThresholdMasks],
                            timeLock : {0},
                            threshold : 1..Cardinality(ThresholdMembers)]
    /\ proposal \in ThresholdProposals(multisigAccount.threshold)
    /\ now = 0
    /\ pc = "idle"
    /\ outcome = NoOutcome
    /\ submitted = <<>>
    /\ calls = <<>> /\ deadline = None /\ verdict = None
    /\ request = None /\ txMsg = None /\ wire = None /\ decoded = None

NextApprove ==
    \E voter \in ThresholdMembers \cup {Outsider}, fault \in VoteFaults :
        runApproveTransaction(voter, fault)

SpecApprove == InitApprove /\ [][NextApprove]_vars

-----------------------------------------------------------------------------
(* The wire encoding of a TransactionMessage (Encoder / Decoder)           *)

\* Total number of list entries (account keys, instructions, account
\* indexes, payload bytes, lookups, lookup indexes) of a drawn message.
MaxMsgSize == 4

\* Width of a public key on the wire: ag_solanago.PublicKey is [32]byte.
PublicKeyLength == 32

Uint8Modulus == 256

\* uint8(len(x)) and the little-endian uint16(len(x))
U8(n) == n % Uint8Modulus
U16LE(n) == <<n % Uint8Modulus, (n \div Uint8Modulus) % Uint8Modulus>>

\* The public key whose 32 bytes all equal a.
Key(a) == [i \in 1..PublicKeyLength |-> a]

RECURSIVE Flatten(_)
Flatten(ss) == IF ss = <<>> THEN <<>> ELSE Head(ss) \o Flatten(Tail(ss))

\* An encoder result: the error returned and the bytes written to the
\* buffer before it.
EncOk(bytes) == [err |-> "nil", bytes |-> bytes]
EncThen(r1, r2) ==
    IF r1.err # "nil" THEN r1
    ELSE [err |-> r2.err, bytes |-> r1.bytes \o r2.bytes]

\* A run of Encode calls, each returning at the first error.  The run is
\* split in halves, which joins the results in the same order.
RECURSIVE EncAll(_)
EncAll(rs) ==
    IF rs = <<>> THEN EncOk(<<>>)
    ELSE IF Len(rs) = 1 THEN rs[1]
    ELSE EncThen(EncAll(SubSeq(rs, 1, Len(rs) \div 2)),
                 EncAll(SubSeq(rs, Len(rs) \div 2 + 1, Len(rs))))

\* The dynamic types Encoder.Encode has a case for.  A
\* *ag_solanago.PublicKey is none of them and does not implement Encodable.
EncoderCasesMutant ==
    {"Encodable", "*SmallVec[uint8,PublicKey]", "*SmallVec[uint8,CompiledInstruction]",
     "*SmallVec[uint8,MessageAddressTableLookup]", "SmallVec[uint16,uint8]",
     "*uint8", "uint8", "uint16", "[]uint8", "PublicKey", "*PublicKey"}
EncoderCases ==
    {"Encodable", "*SmallVec[uint8,PublicKey]", "*SmallVec[uint8,CompiledInstruction]",
     "*SmallVec[uint8,MessageAddressTableLookup]", "SmallVec[uint16,uint8]",
     "*uint8", "uint8", "uint16", "[]uint8", "PublicKey"}

\* Encoder.Encode on a value of dynamic type ty whose bytes are bs.
Encode(ty, bs) ==
    IF ty \in EncoderCases THEN EncOk(bs)
    ELSE [err |-> "unsupported type", bytes |-> <<>>]

CompiledInstructionEncodeWith(ci) ==
    EncAll(<<Encode("uint8", <<ci.ProgramIdIndex>>),
             Encode("uint8", <<U8(Len(ci.AccountIndexes))>>),
             Encode("[]uint8", ci.AccountIndexes),
             Encode("uint16", U16LE(Len(ci.Data))),
             Encode("[]uint8", ci.Data)>>)

MessageAddressTableLookupEncodeWith(m) ==
    EncAll(<<Encode("*PublicKey", m.AccountKey),
             Encode("uint8", <<U8(Len(m.WritableIndexes))>>),
             Encode("[]uint8", m.WritableIndexes),
             Encode("uint8", <<U8(Len(m.ReadonlyIndexes))>>),
             Encode("[]uint8", m.ReadonlyIndexes)>>)

TransactionMessageEncodeWith(tm) ==
    EncAll(<<Encode("uint8", <<tm.NumSigners>>),
             Encode("uint8", <<tm.NumWritableSigners>>),
             Encode("uint8", <<tm.NumWritableNonSigners>>),
             Encode("uint8", <<U8(Len(tm.AccountKeys))>>),
             EncAll([i \in 1..Len(tm.AccountKeys) |->
                        Encode("PublicKey", tm.AccountKeys[i])]),
             Encode("uint8", <<U8(Len(tm.Instructions))>>),
             EncAll([i \in 1..Len(tm.Instructions) |->
                        CompiledInstructionEncodeWith(tm.Instructions[i])]),
             Encode("uint8", <<U8(Len(tm.AddressTableLookups))>>),
             EncAll([i \in 1..Len(tm.AddressTableLookups) |->
                        MessageAddressTableLookupEncodeWith(tm.AddressTableLookups[i])])>>)

\* io.ReadFull(d.r, buf) with len(buf) = n, the reader standing at offset
\* pos of b: nil when n bytes are there (also for n = 0), io.EOF when none
\* is, io.ErrUnexpectedEOF when only some are.  pos counts the bytes consumed.
ReadFullMutant(b, pos, n) ==
    IF pos + n <= Len(b)
    THEN [err |-> "nil", pos |-> pos + n, val |-> SubSeq(b, pos + 1, pos + n)]
    ELSE [err |-> "nil", pos |-> Len(b),
          val |-> SubSeq(b, pos + 1, Len(b)) \o [i \in 1..(pos + n - Len(b)) |-> 0]]
ReadFull(b, pos, n) ==
    IF pos + n <= Len(b)
    THEN [err |-> "nil", pos |-> pos + n, val |-> SubSeq(b, pos + 1, pos + n)]
    ELSE IF pos >= Len(b)
    THEN [err |-> "EOF", pos |-> pos, val |-> <<>>]
    ELSE [err |-> "unexpected EOF", pos |-> Len(b), val |-> SubSeq(b, pos + 1, Len(b))]

\* binary.Read of a uint8 / of a little-endian uint16
AsU8(r) ==
    [err |-> r.err, pos |-> r.pos, val |-> IF r.err = "nil" THEN r.val[1] ELSE 0]
ReadU8(b, pos) == AsU8(ReadFull(b, pos, 1))
AsU16(r) ==
    [err |-> r.err, pos |-> r.pos,
     val |-> IF r.err = "nil" THEN r.val[1] + Uint8Modulus * r.val[2] ELSE 0]
ReadU16(b, pos) == AsU16(ReadFull(b, pos, 2))

Fail(r, v) == [err |-> r.err, pos |-> r.pos, val |-> v]

\* A length just read, then make([]byte, length) and io.ReadFull into it.
ReadBody(b, n) ==
    IF n.err # "nil" THEN Fail(n, <<>>) ELSE ReadFull(b, n.pos, n.val)

EmptyInstruction == [ProgramIdIndex |-> 0, AccountIndexes |-> <<>>, Data |-> <<>>]
EmptyLookup == [AccountKey |-> Key(0), WritableIndexes |-> <<>>, ReadonlyIndexes |-> <<>>]
EmptyMessage ==
    [NumSigners |-> 0, NumWritableSigners |-> 0, NumWritableNonSigners |-> 0,
     AccountKeys |-> <<>>, Instructions |-> <<>>, AddressTableLookups |-> <<>>]

\* The fields each DecodeWith reads, in the order it reads them.
CompiledInstructionFields == <<"uint8", "uint8 bytes", "uint16 bytes">>
MessageAddressTableLookupFields == <<"PublicKey", "uint8 bytes", "uint8 bytes">>
TransactionMessageFields ==
    <<"uint8", "uint8", "uint8", "SmallVec PublicKey",
      "SmallVec CompiledInstruction", "SmallVec MessageAddressTableLookup">>

\* The value a DecodeWith leaves behind: the fields read when all were read.
AsInstruction(r) ==
    [err |-> r.err, pos |-> r.pos,
     val |-> IF r.err # "nil" THEN EmptyInstruction
             ELSE [ProgramIdIndex |-> r.val[1], AccountIndexes |-> r.val[2],
                   Data |-> r.val[3]]]
AsLookup(r) ==
    [err |-> r.err, pos |-> r.pos,
     val |-> IF r.err # "nil" THEN EmptyLookup
             ELSE [AccountKey |-> r.val[1], WritableIndexes |-> r.val[2],
                   ReadonlyIndexes |-> r.val[3]]]
AsMessage(r) ==
    [err |-> r.err, pos |-> r.pos,
     val |-> IF r.err # "nil" THEN EmptyMessage
             ELSE [NumSigners |-> r.val[1], NumWritableSigners |-> r.val[2],
                   NumWritableNonSigners |-> r.val[3], AccountKeys |-> r.val[4],
                   Instructions |-> r.val[5], AddressTableLookups |-> r.val[6]]]

\* The state of a run of reads after the read f: the values read so far, the
\* position reached, and the error of f.
AfterRead(r, f) ==
    [err |-> f.err, pos |-> f.pos,
     val |-> IF f.err = "nil" THEN Append(r.val, f.val) ELSE r.val]

StartAt(pos) == [err |-> "nil", pos |-> pos, val |-> <<>>]

RECURSIVE DecodeItem(_, _, _)
RECURSIVE DecodeItems(_, _, _)

\* A run of d.Decode calls, each returning at the first error.
DecodeItems(kinds, b, r) ==
    IF kinds = <<>> \/ r.err # "nil" THEN r
    ELSE IF Len(kinds) = 1 THEN AfterRead(r, DecodeItem(kinds[1], b, r.pos))
    ELSE DecodeItems(SubSeq(kinds, Len(kinds) \div 2 + 1, Len(kinds)), b,
                     DecodeItems(SubSeq(kinds, 1, Len(kinds) \div 2), b, r))

\* Decoder.Decode on a *SmallVec[uint8, T]: after the length byte n, that
\* many items of kind T.
DecodeSmallVecBody(kind, b, n) ==
    IF n.err # "nil" THEN Fail(n, <<>>)
    ELSE DecodeItems([i \in 1..n.val |-> kind], b, StartAt(n.pos))

DecodeSmallVec(kind, b, pos) == DecodeSmallVecBody(kind, b, ReadU8(b, pos))

CompiledInstructionDecodeWith(b, pos) ==
    AsInstruction(DecodeItems(CompiledInstructionFields, b, StartAt(pos)))

MessageAddressTableLookupDecodeWith(b, pos) ==
    AsLookup(DecodeItems(MessageAddressTableLookupFields, b, StartAt(pos)))

\* One d.Decode call, or a length read followed by the read of that many bytes.
DecodeItem(kind, b, pos) ==
    CASE kind = "uint8" -> ReadU8(b, pos)
      [] kind = "PublicKey" -> ReadFull(b, pos, PublicKeyLength)
      [] kind = "uint8 bytes" -> ReadBody(b, ReadU8(b, pos))
      [] kind = "uint16 bytes" -> ReadBody(b, ReadU16(b, pos))
      [] kind = "CompiledInstruction" -> CompiledInstructionDecodeWith(b, pos)
      [] kind = "MessageAddressTableLookup" -> MessageAddressTableLookupDecodeWith(b, pos)
      [] kind = "SmallVec PublicKey" -> DecodeSmallVec("PublicKey", b, pos)
      [] kind = "SmallVec CompiledInstruction" ->
            DecodeSmallVec("CompiledInstruction", b, pos)
      [] kind = "SmallVec MessageAddressTableLookup" ->
            DecodeSmallVec("MessageAddressTableLookup", b, pos)

TransactionMessageDecodeWith(b) ==
    AsMessage(DecodeItems(TransactionMessageFields, b, StartAt(0)))

\* The bytes of a message as the record store holds them: the layout
\* TransactionMessage.DecodeWith reads, field by field.
StoredInstruction(ci) ==
    <<ci.ProgramIdIndex, U8(Len(ci.AccountIndexes))>> \o ci.AccountIndexes
        \o U16LE(Len(ci.Data)) \o ci.Data
StoredLookup(m) ==
    m.AccountKey \o <<U8(Len(m.WritableIndexes))>> \o m.WritableIndexes
        \o <<U8(Len(m.ReadonlyIndexes))>> \o m.ReadonlyIndexes
StoredMessage(tm) ==
    <<tm.NumSigners, tm.NumWritableSigners, tm.NumWritableNonSigners>>
        \o <<U8(Len(tm.AccountKeys))>> \o Flatten(tm.AccountKeys)
        \o <<U8(Len(tm.Instructions))>>
        \o Flatten([i \in 1..Len(tm.Instructions) |-> StoredInstruction(tm.Instructions[i])])
        \o <<U8(Len(tm.AddressTableLookups))>>
        \o Flatten([i \in 1..Len(tm.AddressTableLookups) |->
                        StoredLookup(tm.AddressTableLookups[i])])

(* The messages drawn for the codec: every shape of at most MaxMsgSize     *)
(* list entries, the entries' values fixed by their position.              *)

\* Sequences of pairs <<a, b>> with the sum of 1 + a + b at most n: the
\* two list lengths of each instruction, or of each lookup.
RECURSIVE PairSeqs(_)
PairSeqs(n) ==
    {<<>>} \cup
    UNION {{<<p>> \o s : s \in PairSeqs(n - 1 - p[1] - p[2])} :
            p \in {q \in (0..(n - 1)) \X (0..(n - 1)) : q[1] + q[2] <= n - 1}}

RECURSIVE PairSize(_)
PairSize(s) == IF s = <<>> THEN 0 ELSE 1 + Head(s)[1] + Head(s)[2] + PairSize(Tail(s))

HeaderCounts == {1, 255}

ShapedMessage(c, k, ixs, lks) ==
    [NumSigners |-> c[1], NumWritableSigners |-> c[2], NumWritableNonSigners |-> c[3],
     AccountKeys |-> [i \in 1..k |-> Key(i)],
     Instructions |->
        [j \in 1..Len(ixs) |->
            [ProgramIdIndex |-> j,
             AccountIndexes |-> [i \in 1..ixs[j][1] |-> 10 * j + i],
             Data |-> [i \in 1..ixs[j][2] |-> 100 + 10 * j + i]]],
     AddressTableLookups |->
        [j \in 1..Len(lks) |->
            [AccountKey |-> Key(200 + j),
             WritableIndexes |-> [i \in 1..lks[j][1] |-> 20 * j + i],
             ReadonlyIndexes |-> [i \in 1..lks[j][2] |-> 20 * j + 10 + i]]]]

Messages ==
    UNION {UNION {{ShapedMessage(c, k, ixs, lks) :
                        c \in HeaderCounts \X HeaderCounts \X HeaderCounts,
                        lks \in PairSeqs(MaxMsgSize - k - PairSize(ixs))} :
                    ixs \in PairSeqs(MaxMsgSize - k)} :
            k \in 0..MaxMsgSize}

NoWire == [from |-> "none", err |-> "none", bytes |-> <<>>]
NoDecode == [err |-> "none", pos |-> 0, val |-> None, fed |-> 0]

\* msg.EncodeWith(NewEncoder(&buf))
EncodeMessage ==
    /\ pc = "idle"
    /\ wire' = [from |-> "encoder"] @@ TransactionMessageEncodeWith(txMsg)
    /\ pc' = "encoded"
    /\ UNCHANGED <<lifecycleVars, request, txMsg, decoded>>

\* The bytes of the message are read back from the record store.
FetchStored ==
    /\ pc = "idle"
    /\ wire' = [from |-> "store", err |-> "nil", bytes |-> StoredMessage(txMsg)]
    /\ pc' = "encoded"
    /\ UNCHANGED <<lifecycleVars, request, txMsg, decoded>>

\* msgDecoded.DecodeWith(NewDecoder(...)) on the first k bytes of the buffer
DecodeMessage(k) ==
    /\ pc = "encoded"
    /\ wire.err = "nil"
    /\ k \in 0..Len(wire.bytes)
    /\ decoded' = [fed |-> k] @@ TransactionMessageDecodeWith(SubSeq(wire.bytes, 1, k))
    /\ pc' = "decoded"
    /\ UNCHANGED <<lifecycleVars, request, txMsg, wire>>

InitCodec ==
    /\ multisigAccount = None /\ proposal = None /\ now = 0
    /\ outcome = NoOutcome /\ submitted = <<>>
    /\ calls = <<>> /\ deadline = None /\ verdict = None
    /\ request = None
    /\ txMsg \in Messages
    /\ wire = NoWire
    /\ decoded = NoDecode
    /\ pc = "idle"

NextCodec ==
    \/ EncodeMessage
    \/ FetchStored
    \/ \E k \in 0..(Len(wire.bytes)) : DecodeMessage(k)

SpecCodec == InitCodec /\ [][NextCodec]_vars

-----------------------------------------------------------------------------
(* The message compiler: CompileKeys, ExtractTableLookup,                  *)
(* GetMessageComponents, CompileInstructions, CompileToWrappedMessageV0    *)
(* and createTransactionMessageBytes                                       *)

\* Number of distinct account addresses the instructions are drawn over.
NumAddrs == 3
\* Size of a drawn instruction list: instructions plus account metas.
MaxIxSize == 2
\* Size of a drawn list of lookup tables: tables plus table entries.
MaxTableSize == 2

Addrs == {Key(a) : a \in 1..NumAddrs}

\* The orders in which a range over a Go map can visit the keys in S.
Orderings(S) ==
    {f \in [1..Cardinality(S) -> S] :
        \A i, j \in 1..Cardinality(S) : i # j => f[i] # f[j]}

DefaultKeyMeta == [IsSigner |-> FALSE, IsWritable |-> FALSE, IsInvoked |-> FALSE]

\* getOrInsertDefault followed by the write-back keyMetaMap[address] = meta
getOrInsertDefault(keyMetaMap, pubkey) ==
    IF pubkey \in DOMAIN keyMetaMap THEN keyMetaMap[pubkey] ELSE DefaultKeyMeta
PutMeta(keyMetaMap, pubkey, meta) ==
    [k \in DOMAIN keyMetaMap \cup {pubkey} |->
        IF k = pubkey THEN meta ELSE keyMetaMap[k]]

RECURSIVE CompileAccountMetas(_, _)
CompileAccountMetasMutant(keyMetaMap, accounts) ==
    IF accounts = <<>> THEN keyMetaMap
    ELSE LET accountMeta == Head(accounts)
             keyMeta == getOrInsertDefault(keyMetaMap, accountMeta.PublicKey)
         IN CompileAccountMetas(
                PutMeta(keyMetaMap, accountMeta.PublicKey,
                    [keyMeta EXCEPT
                        !.IsSigner = accountMeta.IsSigner,
                        !.IsWritable = keyMeta.IsWritable \/ accountMeta.IsWritable]),
                Tail(accounts))
CompileAccountMetas(keyMetaMap, accounts) ==
    IF accounts = <<>> THEN keyMetaMap
    ELSE LET accountMeta == Head(accounts)
             keyMeta == getOrInsertDefault(keyMetaMap, accountMeta.PublicKey)
         IN CompileAccountMetas(
                PutMeta(keyMetaMap, accountMeta.PublicKey,
                    [keyMeta EXCEPT
                        !.IsSigner = keyMeta.IsSigner \/ accountMeta.IsSigner,
                        !.IsWritable = keyMeta.IsWritable \/ accountMeta.IsWritable]),
                Tail(accounts))

RECURSIVE CompileKeysLoop(_, _)
CompileKeysLoop(keyMetaMap, instructions) ==
    IF instructions = <<>> THEN keyMetaMap
    ELSE LET ix == Head(instructions)
             programKeyMeta == getOrInsertDefault(keyMetaMap, ix.ProgramID)
             withProgram == PutMeta(keyMetaMap, ix.ProgramID,
                                [programKeyMeta EXCEPT !.IsInvoked = FALSE])
         IN CompileKeysLoop(CompileAccountMetas(withProgram, ix.Accounts),
                            Tail(instructions))

CompileKeys(instructions, payer) ==
    LET payerKeyMeta == [DefaultKeyMeta EXCEPT !.IsSigner = TRUE, !.IsWritable = TRUE]
    IN CompileKeysLoop(PutMeta(<<>>, payer, payerKeyMeta), instructions)

\* Position (from 0) of the first entry of the table equal to key.
FirstIndex(entries, key) ==
    CHOOSE i \in 0..(Len(entries) - 1) :
        /\ entries[i + 1] = key
        /\ \A j \in 0..(i - 1) : entries[j + 1] # key

\* drainKeysFoundInLookupTable: the keys of the map that pass the filter and
\* occur in the table; the possible results differ in the order the map is
\* visited.  Each is <<lookupTableIndexes, drainedKeys>>.
DrainableKeysMutant(keyMetaMap, entries, writable) ==
    {k \in DOMAIN keyMetaMap :
        /\ ~keyMetaMap[k].IsInvoked
        /\ keyMetaMap[k].IsWritable = writable
        /\ k \in Range(entries)}
DrainableKeys(keyMetaMap, entries, writable) ==
    {k \in DOMAIN keyMetaMap :
        /\ ~keyMetaMap[k].IsSigner
        /\ ~keyMetaMap[k].IsInvoked
        /\ keyMetaMap[k].IsWritable = writable
        /\ k \in Range(entries)}

drainKeysFoundInLookupTable(keyMetaMap, entries, writable) ==
    {<<[i \in 1..Len(order) |-> U8(FirstIndex(entries, order[i]))], order>> :
        order \in Orderings(DrainableKeys(keyMetaMap, entries, writable))}

Without(keyMetaMap, keys) == [k \in DOMAIN keyMetaMap \ keys |-> keyMetaMap[k]]

\* One step of the loop of CompileToWrappedMessageV0 over the lookup tables.
\* st holds the key map, the lookups found so far and the keys drained.
ExtractTableLookup(st, lookupTable) ==
    LET entries == lookupTable.Addresses
        ws == DrainableKeys(st.keyMetaMap, entries, TRUE)
        afterW == Without(st.keyMetaMap, ws)
        rs == DrainableKeys(afterW, entries, FALSE)
    IN IF ws = {} /\ rs = {} THEN {st}
       ELSE {[keyMetaMap |-> Without(afterW, rs),
              addressTableLookups |->
                Append(st.addressTableLookups,
                    [AccountKey |-> lookupTable.Key,
                     WritableIndexes |-> w[1],
                     ReadonlyIndexes |-> r[1]]),
              Writable |-> st.Writable \o w[2],
              Readonly |-> st.Readonly \o r[2]] :
                w \in drainKeysFoundInLookupTable(st.keyMetaMap, entries, TRUE),
                r \in drainKeysFoundInLookupTable(afterW, entries, FALSE)}

RECURSIVE ExtractAll(_, _)
ExtractAll(st, tables) ==
    IF tables = <<>> THEN {st}
    ELSE UNION {ExtractAll(st2, Tail(tables)) :
                    st2 \in ExtractTableLookup(st, Head(tables))}

\* The four buckets of GetMessageComponents.
Bucket(keyMetaMap, signer, writable) ==
    {k \in DOMAIN keyMetaMap :
        keyMetaMap[k].IsSigner = signer /\ keyMetaMap[k].IsWritable = writable}

\* GetMessageComponents: header and static keys; the possible results differ
\* in the order the map is visited inside each bucket.
GetMessageComponentsMutant(keyMetaMap) ==
    LET writableSigners == Bucket(keyMetaMap, TRUE, TRUE)
        readonlySigners == Bucket(keyMetaMap, TRUE, FALSE)
        writableNonSigners == Bucket(keyMetaMap, FALSE, TRUE)
        readonlyNonSigners == Bucket(keyMetaMap, FALSE, FALSE)
        header ==
            [NumRequiredSignatures |->
                U8(Cardinality(writableSigners) + Cardinality(readonlySigners)),
             NumReadonlySignedAccounts |-> U8(Cardinality(readonlySigners)),
             NumReadonlyUnsignedAccounts |-> U8(Cardinality(readonlyNonSigners))]
    IN {[header |-> header, staticAccountKeys |-> a \o b \o d \o c] :
            a \in Orderings(writableSigners), b \in Orderings(readonlySigners),
            c \in Orderings(writableNonSigners), d \in Orderings(readonlyNonSigners)}
GetMessageComponents(keyMetaMap) ==
    LET writableSigners == Bucket(keyMetaMap, TRUE, TRUE)
        readonlySigners == Bucket(keyMetaMap, TRUE, FALSE)
        writableNonSigners == Bucket(keyMetaMap, FALSE, TRUE)
        readonlyNonSigners == Bucket(keyMetaMap, FALSE, FALSE)
        header ==
            [NumRequiredSignatures |->
                U8(Cardinality(writableSigners) + Cardinality(readonlySigners)),
             NumReadonlySignedAccounts |-> U8(Cardinality(readonlySigners)),
             NumReadonlyUnsignedAccounts |-> U8(Cardinality(readonlyNonSigners))]
    IN {[header |-> header, staticAccountKeys |-> a \o b \o c \o d] :
            a \in Orderings(writableSigners), b \in Orderings(readonlySigners),
            c \in Orderings(writableNonSigners), d \in Orderings(readonlyNonSigners)}

\* accountIndexMap[key]: the index last assigned to key while walking the
\* static keys, the lookup writable keys and the lookup readonly keys; the
\* zero value 0 for a key that is in none of them.
AccountIndex(combined, key) ==
    IF key \in Range(combined)
    THEN (CHOOSE i \in 1..Len(combined) :
            /\ combined[i] = key
            /\ \A j \in (i + 1)..Len(combined) : combined[j] # key) - 1
    ELSE 0

CompileInstructions(staticAccountKeys, Writable, Readonly, instructions) ==
    LET combined == staticAccountKeys \o Writable \o Readonly
    IN [n \in 1..Len(instructions) |->
            [ProgramIDIndex |-> AccountIndex(combined, instructions[n].ProgramID),
             Accounts |->
                [i \in 1..Len(instructions[n].Accounts) |->
                    AccountIndex(combined, instructions[n].Accounts[i].PublicKey)],
             Data |-> instructions[n].Data]]

\* The messages CompileToWrappedMessageV0 can return.
CompileToWrappedMessageV0(payerKey, instructions, addressLookupTableAccounts) ==
    LET start == [keyMetaMap |-> CompileKeys(instructions, payerKey),
                  addressTableLookups |-> <<>>,
                  Writable |-> <<>>, Readonly |-> <<>>]
    IN UNION {{[Header |-> mc.header,
                AccountKeys |-> mc.staticAccountKeys,
                Instructions |->
                    CompileInstructions(mc.staticAccountKeys, st.Writable,
                                        st.Readonly, instructions),
                AddressTableLookups |-> st.addressTableLookups] :
                    mc \in GetMessageComponents(st.keyMetaMap)} :
                st \in ExtractAll(start, addressLookupTableAccounts)}

\* uint8 subtraction
SubU8(a, b) == (a - b) % Uint8Modulus

convertToUint8Slice(ints) == [i \in 1..Len(ints) |-> U8(ints[i])]

\* The TransactionMessage createTransactionMessageBytes builds from the
\* compiled message.
TxMsgOf(compiledMessage) ==
    [NumSigners |-> U8(compiledMessage.Header.NumRequiredSignatures),
     NumWritableSigners |->
        SubU8(compiledMessage.Header.NumRequiredSignatures,
              compiledMessage.Header.NumReadonlySignedAccounts),
     NumWritableNonSigners |->
        SubU8(SubU8(U8(Len(compiledMessage.AccountKeys)),
                    compiledMessage.Header.NumRequiredSignatures),
              compiledMessage.Header.NumReadonlyUnsignedAccounts),
     AccountKeys |-> compiledMessage.AccountKeys,
     Instructions |->
        [n \in 1..Len(compiledMessage.Instructions) |->
            [ProgramIdIndex |-> U8(compiledMessage.Instructions[n].ProgramIDIndex),
             AccountIndexes |->
                convertToUint8Slice(compiledMessage.Instructions[n].Accounts),
             Data |-> compiledMessage.Instructions[n].Data]],
     AddressTableLookups |-> compiledMessage.AddressTableLookups]

(* The drawn requests.                                                     *)

AccountMetas ==
    [PublicKey : Addrs, IsSigner : BOOLEAN, IsWritable : BOOLEAN]

\* Sequences of length at most n over S.
RECURSIVE SeqsUpTo(_, _)
SeqsUpTo(S, n) ==
    IF n <= 0 THEN {<<>>}
    ELSE {<<>>} \cup {<<x>> \o s : x \in S, s \in SeqsUpTo(S, n - 1)}

\* Lists of <<head, items>> with head in H and items a sequence over S,
\* the sum of 1 + Len(items) at most n.
RECURSIVE SizedLists(_, _, _)
SizedLists(H, S, n) ==
    IF n <= 0 THEN {<<>>}
    ELSE {<<>>} \cup
         UNION {{<<<<h, items>>>> \o rest : h \in H,
                    rest \in SizedLists(H, S, n - 1 - Len(items))} :
                items \in SeqsUpTo(S, n - 1)}

InstructionLists ==
    {[n \in 1..Len(l) |->
        [ProgramID |-> l[n][1], Accounts |-> l[n][2],
         Data |-> <<2, 0, 0, 0, n, Len(l[n][2])>>]] :
        l \in SizedLists(Addrs, AccountMetas, MaxIxSize) \ {<<>>}}

\* The address of the n-th supplied lookup table.
TableKey(n) == Key(100 + n)

LookupTableLists ==
    {[n \in 1..Len(l) |-> [Key |-> TableKey(n), Addresses |-> l[n][2]]] :
        l \in SizedLists({0}, Addrs, MaxTableSize)}

\* The compiler treats addresses only through equality, so the fee payer is
\* drawn from the first and the last address.
Payers == {Key(1), Key(NumAddrs)}

Requests ==
    [payer : Payers, instructions : InstructionLists, tables : LookupTableLists]

\* createTransactionMessageBytes(payer, instructions, recentBlockhash, tables)
createTransactionMessageBytes ==
    /\ pc = "idle"
    /\ \E compiledMessage \in
            CompileToWrappedMessageV0(request.payer, request.instructions,
                                      request.tables) :
        /\ txMsg' = TxMsgOf(compiledMessage)
        /\ wire' = [from |-> "compiler"] @@ TransactionMessageEncodeWith(txMsg')
    /\ pc' = "encoded"
    /\ UNCHANGED <<lifecycleVars, request, decoded>>

InitCompile ==
    /\ multisigAccount = None /\ proposal = None /\ now = 0
    /\ outcome = NoOutcome /\ submitted = <<>>
    /\ calls = <<>> /\ deadline = None /\ verdict = None
    /\ request \in Requests
    /\ txMsg = None
    /\ wire = NoWire
    /\ decoded = NoDecode
    /\ pc = "idle"

NextCompile ==
    \/ createTransactionMessageBytes
    \/ DecodeMessage(Len(wire.bytes))

SpecCompile == InitCompile /\ [][NextCompile]_vars

-----------------------------------------------------------------------------
(* createTransactionMessageBytes on compiled messages whose lists are at   *)
(* the edge of the one-byte length prefix                                  *)

\* How far the list sizes drawn reach to either side of 255.
MaxOverflow == 2

LargeSizes == (Uint8Modulus - 1 - MaxOverflow)..(Uint8Modulus - 1 + MaxOverflow)

\* The list of the message that is given the drawn size.
LargeLists ==
    {"AccountKeys", "Instructions", "AccountIndexes", "AddressTableLookups",
     "WritableIndexes"}

\* The a-th of more than 256 distinct public keys.
WideKey(a) ==
    [i \in 1..PublicKeyLength |->
        IF i = 1 THEN a % Uint8Modulus ELSE a \div Uint8Modulus]

LargeRequests == [list : LargeLists, size : LargeSizes, fill : {0, 1, Uint8Modulus - 1}]

LargeKeys(r) ==
    [i \in 1..(IF r.list = "AccountKeys" THEN r.size ELSE 1) |-> WideKey(i - 1)]

\* The instructions handed to CompileInstructions: for a long key list one
\* instruction whose program is the last key and whose accounts are the
\* first and the last key.
LargeInstructions(r) ==
    CASE r.list = "AccountKeys" ->
            <<[ProgramID |-> WideKey(r.size - 1),
               Accounts |-> <<[PublicKey |-> WideKey(0)],
                              [PublicKey |-> WideKey(r.size - 1)]>>,
               Data |-> <<r.fill>>]>>
      [] r.list = "Instructions" ->
            [n \in 1..r.size |->
                [ProgramID |-> WideKey(0), Accounts |-> <<>>, Data |-> <<r.fill>>]]
      [] r.list = "AccountIndexes" ->
            <<[ProgramID |-> WideKey(0),
               Accounts |-> [i \in 1..r.size |-> [PublicKey |-> WideKey(0)]],
               Data |-> <<r.fill>>]>>
      [] OTHER ->
            <<[ProgramID |-> WideKey(0), Accounts |-> <<>>, Data |-> <<r.fill>>]>>

LargeLookups(r) ==
    CASE r.list = "AddressTableLookups" ->
            [n \in 1..r.size |->
                [AccountKey |-> Key(1), WritableIndexes |-> <<r.fill>>,
                 ReadonlyIndexes |-> <<>>]]
      [] r.list = "WritableIndexes" ->
            <<[AccountKey |-> Key(1),
               WritableIndexes |-> [i \in 1..r.size |-> r.fill],
               ReadonlyIndexes |-> <<>>]>>
      [] OTHER -> <<>>

\* The message CompileToWrappedMessageV0 returns when the key map is
\* visited in the order of LargeKeys.
LargeCompiledMessage(r) ==
    [Header |-> [NumRequiredSignatures |-> 1, NumReadonlySignedAccounts |-> 0,
                 NumReadonlyUnsignedAccounts |-> 0],
     AccountKeys |-> LargeKeys(r),
     Instructions |-> CompileInstructions(LargeKeys(r), <<>>, <<>>,
                                          LargeInstructions(r)),
     AddressTableLookups |-> LargeLookups(r)]

\* The part of createTransactionMessageBytes after the compilation: the
\* TransactionMessage is filled from the compiled message and encoded.
EncodeCompiledMessage ==
    /\ pc = "idle"
    /\ txMsg' = TxMsgOf(request.compiled)
    /\ wire' = [from |-> "compiled"] @@ TransactionMessageEncodeWith(txMsg')
    /\ pc' = "encoded"
    /\ UNCHANGED <<lifecycleVars, request, decoded>>

InitLarge ==
    /\ multisigAccount = None /\ proposal = None /\ now = 0
    /\ outcome = NoOutcome /\ submitted = <<>>
    /\ calls = <<>> /\ deadline = None /\ verdict = None
    /\ \E r \in LargeRequests :
            request = [list |-> r.list, size |-> r.size,
                       compiled |-> LargeCompiledMessage(r)]
    /\ txMsg = None
    /\ wire = NoWire
    /\ decoded = NoDecode
    /\ pc = "idle"

NextLarge ==
    \/ EncodeCompiledMessage
    \/ DecodeMessage(Len(wire.bytes))

SpecLarge == InitLarge /\ [][NextLarge]_vars

-----------------------------------------------------------------------------
(* MessageAccountKeys.CompileInstructions on key lists of any content      *)

\* Key lists without repetition over the drawn addresses.
KeyLists == UNION {Orderings(S) : S \in SUBSET Addrs}

\* A MessageAccountKeys value and the instructions compiled against it.
KeyedRequests ==
    [staticAccountKeys : KeyLists,
     Writable : {<<>>},
     Readonly : {<<>>, <<Key(NumAddrs)>>},
     instructions : InstructionLists]

\* mk.CompileInstructions(instructions): the method has no error result, so
\* the caller always receives the compiled list.
MessageAccountKeysCompileInstructions ==
    /\ pc = "idle"
    /\ txMsg' = [Instructions |->
                    CompileInstructions(request.staticAccountKeys, request.Writable,
                                        request.Readonly, request.instructions)]
    /\ outcome' = [op |-> "compileInstructions", caller |-> None,
                   action |-> None, err |-> "nil"]
    /\ pc' = "done"
    /\ UNCHANGED <<multisigAccount, proposal, now, submitted, calls, deadline,
                   verdict, request, wire, decoded>>

InitCompileInstructions ==
    /\ multisigAccount = None /\ proposal = None /\ now = 0
    /\ outcome = NoOutcome /\ submitted = <<>>
    /\ calls = <<>> /\ deadline = None /\ verdict = None
    /\ request \in KeyedRequests
    /\ txMsg = None
    /\ wire = NoWire
    /\ decoded = NoDecode
    /\ pc = "idle"

NextCompileInstructions == MessageAccountKeysCompileInstructions

SpecCompileInstructions ==
    InitCompileInstructions /\ [][NextCompileInstructions]_vars

-----------------------------------------------------------------------------
(* CompileToWrappedMessageV0 with several lookup tables                    *)

MaxExtractSize == 5

\* One instruction with at most one account; its program and its account
\* are the addresses a table can take.
ExtractInstructionLists ==
    {<<[ProgramID |-> p, Accounts |-> accounts, Data |-> <<>>]>> :
        p \in {Key(2), Key(NumAddrs)},
        accounts \in SeqsUpTo([PublicKey : {Key(1), Key(NumAddrs)},
                               IsSigner : BOOLEAN, IsWritable : BOOLEAN], 1)}

\* Ordered lists of tables, the entries of all of them and the tables
\* themselves at most MaxExtractSize; an address may be in several tables
\* and several times in one.
ExtractTableLists ==
    {[n \in 1..Len(l) |-> [Key |-> TableKey(n), Addresses |-> l[n][2]]] :
        l \in SizedLists({0}, {Key(2), Key(NumAddrs)}, MaxExtractSize)}

InitExtract ==
    /\ multisigAccount = None /\ proposal = None /\ now = 0
    /\ outcome = NoOutcome /\ submitted = <<>>
    /\ calls = <<>> /\ deadline = None /\ verdict = None
    /\ request \in [payer : Payers, instructions : ExtractInstructionLists,
                    tables : ExtractTableLists]
    /\ txMsg = None
    /\ wire = NoWire
    /\ decoded = NoDecode
    /\ pc = "idle"

NextExtract == createTransactionMessageBytes

SpecExtract == InitExtract /\ [][NextExtract]_vars

-----------------------------------------------------------------------------
(* CompileKeys on instructions that name an address more than once         *)

MaxResolveSize == 4

\* Account metas over two addresses, one of them a fee payer.
ResolveMetas ==
    [PublicKey : {Key(1), Key(2)}, IsSigner : BOOLEAN, IsWritable : BOOLEAN]

ResolveInstructionLists ==
    {[n \in 1..Len(l) |->
        [ProgramID |-> l[n][1], Accounts |-> l[n][2], Data |-> <<>>]] :
        l \in SizedLists({Key(2), Key(NumAddrs)}, ResolveMetas, MaxResolveSize) \ {<<>>}}

\* CompileKeys(instructions, payer)
ResolveKeys ==
    /\ pc = "idle"
    /\ decoded' = [err |-> "nil",
                   keyMetaMap |-> CompileKeys(request.instructions, request.payer)]
    /\ pc' = "resolved"
    /\ UNCHANGED <<lifecycleVars, request, txMsg, wire>>

InitResolve ==
    /\ multisigAccount = None /\ proposal = None /\ now = 0
    /\ outcome = NoOutcome /\ submitted = <<>>
    /\ calls = <<>> /\ deadline = None /\ verdict = None
    /\ request \in [payer : Payers, instructions : ResolveInstructionLists,
                    tables : {<<>>}]
    /\ txMsg = None
    /\ wire = NoWire
    /\ decoded = NoDecode
    /\ pc = "idle"

NextResolve == ResolveKeys

SpecResolve == InitResolve /\ [][NextResolve]_vars

-----------------------------------------------------------------------------
(* ExecuteProposal: the accounts of the stored message                     *)

\* isWritable of the account at index i (from 0) of vaultTx.Message.AccountKeys:
\*   if i < int(NumWritableSigners) { true }
\*   else if (i - int(NumSigners)) < int(NumWritableNonSigners) { true }
\* The difference is an int and is negative for every signer.
AdditionalAccountWritable(message, i) ==
    \/ i < message.NumWritableSigners
    \/ i - message.NumSigners < message.NumWritableNonSigners

\* solana.NewAccountMeta(accountKey, isWritable, false) for each account
AdditionalAccountMetas(message) ==
    [n \in 1..Len(message.AccountKeys) |->
        [PublicKey |-> message.AccountKeys[n],
         IsWritable |-> AdditionalAccountWritable(message, n - 1),
         IsSigner |-> FALSE]]

\* The loop of ExecuteProposal over the accounts of the message that the
\* create command compiled and stored.
AppendAdditionalAccounts ==
    /\ pc = "encoded"
    /\ wire.from = "compiler"
    /\ wire.err = "nil"
    /\ decoded' = [err |-> "nil", metas |-> AdditionalAccountMetas(txMsg)]
    /\ pc' = "expanded"
    /\ UNCHANGED <<lifecycleVars, request, txMsg, wire>>

NextExpand ==
    \/ createTransactionMessageBytes
    \/ AppendAdditionalAccounts

SpecExpand == InitCompile /\ [][NextExpand]_vars

-----------------------------------------------------------------------------
(* ExecuteProposal: the accounts of the execute instruction                *)

\* SetMultisigAccount, SetProposalAccount, SetTransactionAccount,
\* SetMemberAccount on the instruction builder
BaseAccounts == <<"multisigPDA", "proposalPDA", "txPDA", "executor">>

\* additionalAccounts := vaultTx.Message.AccountKeys, each appended to
\* executeInstruction.AccountMetaSlice; vaultTx.Message.AddressTableLookups
\* is not read.
ExecuteInstructionAccounts(message) ==
    BaseAccounts \o
        [n \in 1..Len(message.AccountKeys) |->
            AdditionalAccountMetas(message)[n].PublicKey]

\* executeIx := executeInstruction.Build(), for a stored message of any
\* origin (the record store is shared with other clients of the program).
BuildExecuteInstruction ==
    /\ pc = "idle"
    /\ decoded' = [err |-> "nil", accounts |-> ExecuteInstructionAccounts(txMsg)]
    /\ pc' = "built"
    /\ UNCHANGED <<lifecycleVars, request, txMsg, wire>>

NextExecuteAccounts == BuildExecuteInstruction

SpecExecuteAccounts == InitCodec /\ [][NextExecuteAccounts]_vars

-----------------------------------------------------------------------------
(* runCreate: the multisig create command                                  *)

MaxMembers == 2

\* uint8(n) and uint16(n) of a Go int
ToUint8(n) == n % Uint8Modulus
ToUint16(n) == n % (Uint8Modulus * Uint8Modulus)

\* --permissions is an IntSlice: any int may be given.  The values kept are
\* those around the valid range and one whose low byte alone is a valid mask.
PermissionInputs ==
    {-1} \cup (0..(PermissionFull + 1)) \cup {Uint8Modulus + PermissionVote}

\* --members as strings, each a base58 public key or not.
MemberKeyInputs == {"key", "notBase58"}

CreateFaults == {"none", "loadKeypair", "wsConnect", "createMultisig"}

CreateRequests ==
    [threshold : 0..(MaxMembers + 1),
     memberKeys : SeqsUpTo(MemberKeyInputs, MaxMembers),
     memberPermissions : SeqsUpTo(PermissionInputs, MaxMembers)]

\* for _, permission := range memberPermissions {
\*     if uint8(permission)&PermissionVote != 0 { votingMemberCount++ } }
votingMemberCount(memberPermissions) ==
    Cardinality({i \in DOMAIN memberPermissions :
                    HasBit(ToUint8(memberPermissions[i]), PermissionVote)})

\* The first member at which the loop over memberKeys ends the command.
InvalidMembers(r) ==
    {i \in DOMAIN r.memberKeys :
        \/ r.memberKeys[i] = "notBase58"
        \/ r.memberPermissions[i] < 0
        \/ r.memberPermissions[i] > PermissionFull}

MemberError(r, i) ==
    IF r.memberKeys[i] = "notBase58" THEN "InvalidMemberKey" ELSE "InvalidPermission"

\* The log.Fatalf runCreate ends in, "ok" when it runs to its last line.  The
\* loop counts the voting members a second time into votingMemberCount, so
\* the check after it compares the threshold with twice their number.
runCreateResultMutant(r, fault) ==
    IF fault = "loadKeypair" THEN "LoadKeypairFailed"
    ELSE IF Len(r.memberKeys) # Len(r.memberPermissions) THEN "LengthMismatch"
    ELSE IF InvalidMembers(r) # {}
        THEN MemberError(r, Earliest(InvalidMembers(r)))
    ELSE IF ToUint16(2 * votingMemberCount(r.memberPermissions)) < r.threshold
        THEN "InvalidThreshold"
    ELSE IF fault = "wsConnect" THEN "WebSocketFailed"
    ELSE IF fault = "createMultisig" THEN "CreateMultisigFailed"
    ELSE "ok"
runCreateResult(r, fault) ==
    IF fault = "loadKeypair" THEN "LoadKeypairFailed"
    ELSE IF Len(r.memberKeys) # Len(r.memberPermissions) THEN "LengthMismatch"
    ELSE IF ToUint16(votingMemberCount(r.memberPermissions)) < r.threshold
        THEN "ThresholdError"
    ELSE IF InvalidMembers(r) # {}
        THEN MemberError(r, Earliest(InvalidMembers(r)))
    ELSE IF ToUint16(2 * votingMemberCount(r.memberPermissions)) < r.threshold
        THEN "InvalidThreshold"
    ELSE IF fault = "wsConnect" THEN "WebSocketFailed"
    ELSE IF fault = "createMultisig" THEN "CreateMultisigFailed"
    ELSE "ok"

\* multisig.CreateMultisig is called, and with it the creation requested,
\* only when every step before it passed.
CreateReachesSubmit(err) == err \in {"ok", "CreateMultisigFailed"}

CreateCalls(err) ==
    IF err = "LoadKeypairFailed" \/ err \in
            {"LengthMismatch", "ThresholdError", "InvalidMemberKey",
             "InvalidPermission", "InvalidThreshold"}
    THEN <<>>
    ELSE IF err = "WebSocketFailed" THEN <<"ws.Connect">>
    ELSE <<"ws.Connect", "multisig.CreateMultisig">>

\* members[i] = Member{Key, Permissions{Mask: uint8(memberPermissions[i])}}
CreateMembers(r) ==
    [i \in DOMAIN r.memberKeys |-> ToUint8(r.memberPermissions[i])]

runCreate(fault) ==
    /\ pc = "idle"
    /\ outcome' = [op |-> "createMultisig", caller |-> None, action |-> None,
                   err |-> runCreateResult(request, fault)]
    /\ submitted' =
            IF CreateReachesSubmit(runCreateResult(request, fault))
            THEN Append(submitted, [kind |-> "multisigCreate",
                                    members |-> CreateMembers(request),
                                    threshold |-> request.threshold])
            ELSE submitted
    /\ calls' = CreateCalls(runCreateResult(request, fault))
    /\ pc' = "done"
    /\ UNCHANGED <<multisigAccount, proposal, now, deadline, verdict, request,
                   txMsg, wire, decoded>>

InitCreate ==
    /\ request \in CreateRequests
    /\ multisigAccount = None /\ proposal = None /\ now = 0
    /\ pc = "idle"
    /\ outcome = NoOutcome
    /\ submitted = <<>>
    /\ calls = <<>> /\ deadline = None /\ verdict = None
    /\ txMsg = None /\ wire = None /\ decoded = None

NextCreate == \E fault \in CreateFaults : runCreate(fault)

SpecCreate == InitCreate /\ [][NextCreate]_vars

-----------------------------------------------------------------------------
(* uint64ToLEBytes and the data of the transfer instruction                *)

\* A uint64 is held as four 16-bit limbs, the least significant first, so
\* that every value of 0..2^64-1 has a representation.
LimbBits == 16
LimbModulus == 2 ^ LimbBits

\* The limbs drawn: the ends of the byte and limb ranges, and the two limbs
\* of 1,000,000,000 = 15258 * 65536 + 51712.
LimbValues ==
    {0, 1, Uint8Modulus - 1, Uint8Modulus, 15258, 51712, LimbModulus - 1}

Uint64Values == [1..4 -> LimbValues]

\* byte(value >> shift), for shift a multiple of 8 below 64
ByteOfShift(value, shift) ==
    (value[(shift \div LimbBits) + 1] \div (2 ^ (shift % LimbBits))) % Uint8Modulus

uint64ToLEBytesMutant(value) ==
    <<ByteOfShift(value, 0), ByteOfShift(value, 8), ByteOfShift(value, 16),
      ByteOfShift(value, 16), ByteOfShift(value, 32), ByteOfShift(value, 40),
      ByteOfShift(value, 48), ByteOfShift(value, 56)>>
uint64ToLEBytes(value) ==
    <<ByteOfShift(value, 0), ByteOfShift(value, 8), ByteOfShift(value, 16),
      ByteOfShift(value, 24), ByteOfShift(value, 32), ByteOfShift(value, 40),
      ByteOfShift(value, 48), ByteOfShift(value, 56)>>

\* append([]byte{2, 0, 0, 0}, uint64ToLEBytes(lamports)...)
TransferData(lamports) == <<2, 0, 0, 0>> \o uint64ToLEBytes(lamports)

NewTransferInstruction ==
    /\ pc = "idle"
    /\ wire' = [from |-> "transfer", data |-> TransferData(request.lamports)]
    /\ outcome' = [op |-> "transfer", caller |-> None, action |-> None, err |-> "nil"]
    /\ pc' = "done"
    /\ UNCHANGED <<multisigAccount, proposal, now, submitted, calls, deadline,
                   verdict, request, txMsg, decoded>>

InitTransfer ==
    /\ request \in [lamports : Uint64Values]
    /\ multisigAccount = None /\ proposal = None /\ now = 0
    /\ pc = "idle"
    /\ outcome = NoOutcome
    /\ submitted = <<>>
    /\ calls = <<>> /\ deadline = None /\ verdict = None
    /\ txMsg = None /\ wire = None /\ decoded = None

NextTransfer == NewTransferInstruction

SpecTransfer == InitTransfer /\ [][NextTransfer]_vars

-----------------------------------------------------------------------------
(* runInfoCommand: the recent-transactions loop of the info command        *)

\* The largest small index drawn for multisigAccount.TransactionIndex.
MaxInfoIndex == 7
\* "Show up to the last 5 transactions"
RecentLimit == 5

Uint64Of(k) == <<k, 0, 0, 0>>
MaxUint64 == [i \in 1..4 |-> LimbModulus - 1]

\* a - b on uint64: Go's unsigned subtraction, which wraps modulo 2^64
RECURSIVE SubLimbs(_, _, _, _)
SubLimbs(a, b, i, borrow) ==
    IF i > 4 THEN <<>>
    ELSE <<(a[i] - b[i] - borrow + 2 * LimbModulus) % LimbModulus>>
            \o SubLimbs(a, b, i + 1, IF a[i] - b[i] - borrow < 0 THEN 1 ELSE 0)
Sub64(a, b) == SubLimbs(a, b, 1, 0)

\* a > b on uint64
Greater64(a, b) ==
    \E i \in 1..4 : a[i] > b[i] /\ \A j \in (i + 1)..4 : a[j] = b[j]

\* The indices drawn: the small ones, the ones around a limb boundary and
\* the top of the uint64 range.
InfoIndexes ==
    {Uint64Of(k) : k \in 0..MaxInfoIndex}
        \cup {<<k, 1, 0, 0>> : k \in 0..MaxInfoIndex}
        \cup {<<k, 0, 0, 1>> : k \in 0..MaxInfoIndex}
        \cup {Sub64(MaxUint64, Uint64Of(k)) : k \in 0..MaxInfoIndex}

\* The answers of fetchProposalAccount the loop tells apart.
FetchedProposals == {"err", "Active", "Executed"}

\* startIdx := TransactionIndex; if startIdx > 5 { startIdx = 5 }
startIdxMutant(transactionIndex) == Uint64Of(RecentLimit)
startIdx(transactionIndex) ==
    IF Greater64(transactionIndex, Uint64Of(RecentLimit))
    THEN Uint64Of(RecentLimit)
    ELSE transactionIndex

\* i > multisigAccount.TransactionIndex-startIdx
LoopCondition(i, transactionIndex) ==
    Greater64(i, Sub64(transactionIndex, startIdx(transactionIndex)))

\* if multisigAccount.TransactionIndex > 0 { "Recent Transactions:";
\* i := TransactionIndex } else { "No transactions created yet." }
runInfoCommand ==
    /\ pc = "idle"
    /\ IF Greater64(multisigAccount.transactionIndex, Uint64Of(0))
       THEN /\ outcome' = [op |-> "info", caller |-> None, action |-> None,
                           err |-> "nil", i |-> multisigAccount.transactionIndex,
                           lines |-> <<>>, none |-> FALSE]
            /\ pc' = "listing"
       ELSE /\ outcome' = [op |-> "info", caller |-> None, action |-> None,
                           err |-> "nil", i |-> multisigAccount.transactionIndex,
                           lines |-> <<>>, none |-> TRUE]
            /\ pc' = "done"
    /\ UNCHANGED <<multisigAccount, proposal, now, submitted, calls, deadline,
                   verdict, messageVars>>

\* One turn of the loop: the line printed for index i, then i--.
RecentTransaction(fetched) ==
    /\ pc = "listing"
    /\ LoopCondition(outcome.i, multisigAccount.transactionIndex)
    /\ outcome' = [outcome EXCEPT
                     !.lines = Append(@, [index |-> outcome.i, status |-> fetched]),
                     !.i = Sub64(@, Uint64Of(1))]
    /\ calls' = Append(calls, "fetchProposalAccount")
    /\ UNCHANGED <<multisigAccount, proposal, now, submitted, deadline,
                   verdict, messageVars, pc>>

\* The loop condition fails and the command returns.
RecentTransactionsEnd ==
    /\ pc = "listing"
    /\ ~LoopCondition(outcome.i, multisigAccount.transactionIndex)
    /\ pc' = "done"
    /\ UNCHANGED <<lifecycleVars, messageVars>>

InitInfo ==
    /\ multisigAccount \in [transactionIndex : InfoIndexes]
    /\ proposal = None /\ now = 0
    /\ pc = "idle"
    /\ outcome = NoOutcome
    /\ submitted = <<>>
    /\ calls = <<>> /\ deadline = None /\ verdict = None
    /\ request = None /\ txMsg = None /\ wire = None /\ decoded = None

NextInfo ==
    \/ runInfoCommand
    \/ \E fetched \in FetchedProposals : RecentTransaction(fetched)
    \/ RecentTransactionsEnd

\* The command is sequential code: a step that can be taken is taken.
SpecInfo == InitInfo /\ [][NextInfo]_vars /\ WF_vars(NextInfo)

-----------------------------------------------------------------------------
(* Properties of ExecuteProposal                                           *)

ExecuteDone == pc = "done" /\ outcome.op = "execute"

\* The two reads at the head of ExecuteProposal both succeeded.
ExecuteFetched ==
    /\ "fetchProposalAccount" \in Range(calls)
    /\ outcome.err # "FetchProposalFailed"

\* C1: ExecuteProposal hands an execute instruction to SendTransaction only
\* when the fetched proposal's status is exactly Approved; for every other
\* status (an unrecognised one included) it returns the not-approved error
\* and nothing is submitted.
C1_ExecuteOnlyWhenApproved ==
    ExecuteDone =>
        /\ submitted # <<>> => proposal.status = "Approved"
        /\ (ExecuteFetched /\ proposal.status # "Approved") =>
                (outcome.err = "NotApproved" /\ submitted = <<>>)

C1_Witness ==
    /\ ExecuteDone
    /\ proposal.status = "Executed"
    /\ outcome.err = "NotApproved"
    /\ submitted = <<>>

\* The time-lock gate is reached: both reads succeeded and the status is
\* Approved.
ExecuteAtTimelockGate == ExecuteDone /\ ExecuteFetched /\ proposal.status = "Approved"

ExecutorPermitted ==
    /\ outcome.caller \in DOMAIN multisigAccount.members
    /\ HasBit(multisigAccount.members[outcome.caller], PermissionExecute)

\* C3: unless the executor is a listed member whose mask has the execute
\* bit, ExecuteProposal fails and submits nothing; when the status and
\* time-lock gates were passed, the failure is the no-execute-permission
\* error, and that error is returned for no permitted executor.
C3_NoExecutePermission ==
    ExecuteDone =>
        /\ ~ExecutorPermitted => (outcome.err # "ok" /\ submitted = <<>>)
        /\ (ExecuteAtTimelockGate /\ outcome.err # "TimelockNotElapsed"
                /\ ~ExecutorPermitted)
              => outcome.err = "NoExecutePermission"
        /\ outcome.err = "NoExecutePermission" => ~ExecutorPermitted

C3_Witness ==
    /\ ExecuteAtTimelockGate
    /\ outcome.caller \in Members
    /\ multisigAccount.members[outcome.caller] = PermissionPropose + PermissionVote
    /\ outcome.err = "NoExecutePermission"
    /\ submitted = <<>>

-----------------------------------------------------------------------------
(* Properties of VoteOnProposal                                            *)

VoteDone == pc = "done" /\ outcome.op = "vote"

\* C4: a vote is submitted only in a status that admits it: approve and
\* reject while Active, cancel while Active or Approved.
C4_VoteOnlyInLegalStatus ==
    (VoteDone /\ submitted # <<>>) =>
        /\ outcome.action \in {"approve", "reject"} => proposal.status = "Active"
        /\ outcome.action = "cancel" => proposal.status \in {"Active", "Approved"}

\* C5: a voter already in the approved, rejected or cancelled set gets the
\* already-voted error and nothing is submitted.
C5_AlreadyVotedRefused ==
    (VoteDone /\ outcome.caller \in
        (proposal.votes.approved \cup proposal.votes.rejected
            \cup proposal.votes.cancelled)) =>
        (outcome.err # "ok" /\ submitted = <<>>)

\* C6: a listed member whose permission mask is 0 is refused before any
\* submission.
C6_MaskZeroVoterRefused ==
    (VoteDone /\ outcome.caller \in Members
        /\ multisigAccount.members[outcome.caller] = 0) =>
        (outcome.err # "ok" /\ submitted = <<>>)

-----------------------------------------------------------------------------
(* Properties of the message compiler                                      *)

Compiled == pc \in {"encoded", "decoded"} /\ wire.from = "compiler"

\* The flags the request gives an address: the payer signs and is written;
\* an address signs (is written) when some account meta naming it says so.
RequestMetas ==
    UNION {Range(request.instructions[n].Accounts) :
                n \in DOMAIN request.instructions}
RequestSigner(a) ==
    a = request.payer \/ \E m \in RequestMetas : m.PublicKey = a /\ m.IsSigner
RequestWritable(a) ==
    a = request.payer \/ \E m \in RequestMetas : m.PublicKey = a /\ m.IsWritable

\* The flags a reader derives from the position i (from 1) and the counts.
PositionSigner(i) == i <= txMsg.NumSigners
PositionWritable(i) ==
    \/ i <= txMsg.NumWritableSigners
    \/ i > txMsg.NumSigners /\ i - txMsg.NumSigners <= txMsg.NumWritableNonSigners

StaticKeys == Range(txMsg.AccountKeys)

TableEntry(accountKey, idx) ==
    LET t == CHOOSE n \in DOMAIN request.tables : request.tables[n].Key = accountKey
    IN request.tables[t].Addresses[idx + 1]

RECURSIVE LookupKeys(_, _)
LookupKeys(lookups, writable) ==
    IF lookups = <<>> THEN <<>>
    ELSE LET l == Head(lookups)
             idxs == IF writable THEN l.WritableIndexes ELSE l.ReadonlyIndexes
         IN [i \in 1..Len(idxs) |-> TableEntry(l.AccountKey, idxs[i])]
                \o LookupKeys(Tail(lookups), writable)

\* Static keys, then lookup writable keys, then lookup readonly keys.
CombinedKeys(m) ==
    m.AccountKeys \o LookupKeys(m.AddressTableLookups, TRUE)
                  \o LookupKeys(m.AddressTableLookups, FALSE)

Resolves(m) ==
    /\ Len(m.Instructions) = Len(request.instructions)
    /\ \A n \in DOMAIN request.instructions :
        LET ix == request.instructions[n]
            cix == m.Instructions[n]
            keys == CombinedKeys(m)
        IN /\ cix.ProgramIdIndex < Len(keys)
           /\ keys[cix.ProgramIdIndex + 1] = ix.ProgramID
           /\ Len(cix.AccountIndexes) = Len(ix.Accounts)
           /\ \A i \in DOMAIN ix.Accounts :
                /\ cix.AccountIndexes[i] < Len(keys)
                /\ keys[cix.AccountIndexes[i] + 1] = ix.Accounts[i].PublicKey
           /\ cix.Data = ix.Data

\* C8: compiling and encoding a request succeeds, and in the decoded message
\* every program index and account index, looked up in the combined key
\* order, is the address the original instruction named, payload unchanged.
C8_IndicesRoundTrip ==
    /\ (Compiled /\ pc = "encoded") => wire.err = "nil"
    /\ (Compiled /\ pc = "decoded") => (decoded.err = "nil" /\ Resolves(decoded.val))

\* The same law restricted to requests that pass no lookup table.
IndicesRoundTripWithoutTables ==
    (Compiled /\ request.tables = <<>>) =>
        /\ wire.err = "nil"
        /\ pc = "decoded" => (decoded.err = "nil" /\ Resolves(decoded.val))

-----------------------------------------------------------------------------
(* Properties of the TransactionMessage codec                              *)

FromEncoder == wire.from = "encoder"

\* C9: EncodeWith succeeds on every message, and DecodeWith of the bytes it
\* wrote succeeds and yields the message that was encoded.
C9_CodecRoundTrip ==
    /\ (FromEncoder /\ pc = "encoded") => wire.err = "nil"
    /\ (FromEncoder /\ pc = "decoded" /\ decoded.fed = Len(wire.bytes)) =>
            (decoded.err = "nil" /\ decoded.val = txMsg)

\* The round trip for messages without address-table lookups.
CodecRoundTripWithoutLookups ==
    (FromEncoder /\ txMsg.AddressTableLookups = <<>>) =>
        /\ wire.err = "nil"
        /\ (pc = "decoded" /\ decoded.fed = Len(wire.bytes)) =>
                (decoded.err = "nil" /\ decoded.val = txMsg)

Truncated ==
    /\ pc = "decoded"
    /\ wire.from \in {"encoder", "store"}
    /\ decoded.fed < Len(wire.bytes)

-----------------------------------------------------------------------------
(* Properties of MessageAccountKeys.CompileInstructions                    *)

CompileInstructionsDone == pc = "done" /\ outcome.op = "compileInstructions"

\* The addresses the instructions name, and those of the combined key list.
ReferencedKeys ==
    UNION {{request.instructions[n].ProgramID}
            \cup {m.PublicKey : m \in Range(request.instructions[n].Accounts)} :
                n \in DOMAIN request.instructions}
CombinedRequestKeys ==
    Range(request.staticAccountKeys) \cup Range(request.Writable)
        \cup Range(request.Readonly)

\* C11: when an instruction names an address that is not in the combined
\* key list, compilation returns the UnresolvedAccountReference error and
\* hands back no compiled instruction.
C11_UnresolvedReferenceFails ==
    (CompileInstructionsDone /\ ~(ReferencedKeys \subseteq CombinedRequestKeys)) =>
        /\ outcome.err = "UnresolvedAccountReference"
        /\ txMsg.Instructions = <<>>

-----------------------------------------------------------------------------
(* Properties of the three operations (SpecOperations)                     *)

OperationDone == pc = "done" /\ outcome.op \in {"execute", "vote", "propose"}

\* The errors that stand for a failed read or a failed local check.
ReadOrCheckErrors ==
    {"InvalidAction", "WebSocketFailed", "FetchMultisigFailed", "MultisigNotFound",
     "FetchProposalFailed", "ProposalNotFound", "NotApproved", "TimelockNotElapsed",
     "NoExecutePermission", "TransactionAccountInvalid", "TransactionDecodeFailed",
     "NoInstructions", "NotProposer", "InsufficientBalance", "BlockhashFailed"}

\* The vault balance read of the create command was made and failed.
BalanceReadFailed ==
    /\ outcome.op = "propose"
    /\ outcome.fault = "balanceRead"
    /\ "getAccountBalance" \in Range(calls)

ReadOrCheckFailed == outcome.err \in ReadOrCheckErrors \/ BalanceReadFailed

SubmissionCalls ==
    {i \in DOMAIN calls : calls[i] \in {"SendTransaction", "SendAndConfirmTransaction"}}

\* C12: each operation submits at most once per invocation and never
\* retries; when one of its reads or local checks failed, nothing is
\* submitted and the failure is returned to the caller.
C12_SubmitsOnceAfterReads ==
    OperationDone =>
        /\ Cardinality(SubmissionCalls) <= 1
        /\ Len(submitted) <= 1
        /\ ReadOrCheckFailed => (submitted = <<>> /\ outcome.err # "ok")

\* The same for the two library operations, whose every failed read or
\* check returns before the submission.
SubmitsOnceAfterReadsExecuteVote ==
    (OperationDone /\ outcome.op \in {"execute", "vote"}) =>
        /\ Cardinality(SubmissionCalls) <= 1
        /\ Len(submitted) <= 1
        /\ ReadOrCheckFailed => (submitted = <<>> /\ outcome.err # "ok")

\* The caller's deadline elapsed during a call the operation made.
DeadlineElapsed == OperationDone /\ deadline \in Range(calls)

SubmitsAfterDeadline ==
    \E i \in SubmissionCalls : i > CallIndex(calls, deadline)

\* C13: when the caller's deadline elapses while a read or the submission of
\* an operation is outstanding, the operation fails with a timeout error and
\* submits nothing afterwards.
C13_DeadlineStopsOperation ==
    DeadlineElapsed => (outcome.err = "Timeout" /\ ~SubmitsAfterDeadline)

\* VoteOnProposal passes ctx to every call, so it does stop at the deadline.
VoteStopsAtDeadline ==
    (DeadlineElapsed /\ outcome.op = "vote") =>
        (outcome.err = "Timeout" /\ ~SubmitsAfterDeadline)

\* ExecuteProposal submits nothing after the deadline, whichever call it
\* elapsed in: SendTransaction is passed ctx.
ExecuteSubmitsNothingAfterDeadline ==
    (DeadlineElapsed /\ outcome.op = "execute") => ~SubmitsAfterDeadline


ProposeDone == pc = "done" /\ outcome.op = "propose"

\* SendAndConfirmTransaction returned an error.
SubmissionFailed ==
    outcome.fault = "send" /\ "SendAndConfirmTransaction" \in Range(calls)

\* The status fetched by GetSignatureStatuses has a non-nil Err.
StatusCarriesError ==
    outcome.fault = "statusErr" /\ "GetSignatureStatuses" \in Range(calls)

ReportsSuccess == outcome.exit = 0 \/ outcome.banner

\* C17: the transaction create command reports success (exit code 0, the
\* success banner) only if the submitted transaction succeeded; when the
\* submission fails or the fetched signature status carries an error it exits
\* non-zero and prints no banner.
C17_SuccessOnlyWhenSubmitted ==
    ProposeDone =>
        /\ ReportsSuccess =>
                (submitted # <<>> /\ ~SubmissionFailed /\ ~StatusCarriesError)
        /\ (SubmissionFailed \/ StatusCarriesError) =>
                (outcome.exit # 0 /\ ~outcome.banner)

\* What the command does keep: a failed submission ends it with a non-zero
\* exit code and without the banner.
FailedSubmissionIsFatal ==
    (ProposeDone /\ SubmissionFailed) => (outcome.exit # 0 /\ ~outcome.banner)

-----------------------------------------------------------------------------
(* Properties of ExecuteProposal beside the other members (SpecExecuteRace) *)

\* C14: when the external program rejects the submission of an operation
\* because another member changed the proposal after the local check, the
\* operation reports failure and never success.
C14_RejectionReported ==
    verdict = "rejected" => outcome.err # "ok"

-----------------------------------------------------------------------------
(* Properties of ExecuteProposal under a threshold (SpecThreshold)         *)

Approvals == Cardinality(proposal.votes.approved)

TimelockElapsed == now >= proposal.timestamp + multisigAccount.timeLock

LocalRefusals == {"NotApproved", "TimelockNotElapsed", "NoExecutePermission"}

RefusedBelowThreshold ==
    /\ ExecuteDone
    /\ multisigAccount.members = [k \in ThresholdMembers |-> PermissionFull]
    /\ multisigAccount.threshold = 2
    /\ proposal.votes.approved = {"m1"}
    /\ outcome.err = "NotApproved"

-----------------------------------------------------------------------------
(* Properties of the multisig create command (SpecCreate)                  *)

CreateDone == pc = "done" /\ outcome.op = "createMultisig"

\* The members given on the command line whose permission is one of
\* 2, 3, 6, 7: the values of 0..7 with the vote bit.
VotingMembers ==
    {i \in DOMAIN request.memberPermissions :
        request.memberPermissions[i] \in
            {PermissionVote, PermissionVote + PermissionPropose,
             PermissionVote + PermissionExecute, PermissionFull}}

PermissionsInRange ==
    \A i \in DOMAIN request.memberPermissions :
        request.memberPermissions[i] \in 0..PermissionFull

\* C18: the multisig create command requests a creation only when the
\* threshold is at most the number of members with the vote bit and every
\* permission value is in 0..7; otherwise it ends with an error before any
\* submission.
C18_ThresholdWithinVoters ==
    CreateDone =>
        /\ submitted # <<>> =>
                /\ request.threshold <= Cardinality(VotingMembers)
                /\ PermissionsInRange
                /\ submitted[1].threshold = request.threshold
                /\ submitted[1].members = request.memberPermissions
        /\ ~(request.threshold <= Cardinality(VotingMembers) /\ PermissionsInRange) =>
                (submitted = <<>> /\ outcome.err # "ok"
                 /\ "multisig.CreateMultisig" \notin Range(calls))

\* A creation was requested with the threshold equal to the number of
\* voting members, beside a member without the vote bit.
C18_Witness ==
    /\ CreateDone
    /\ submitted # <<>>
    /\ request.threshold = Cardinality(VotingMembers)
    /\ request.threshold > 0
    /\ Cardinality(VotingMembers) < Len(request.memberPermissions)

\* The command refused a threshold above the number of voting members.
RefusedAboveVoters ==
    /\ CreateDone
    /\ outcome.err = "ThresholdError"
    /\ PermissionsInRange

-----------------------------------------------------------------------------
(* Properties of the transfer instruction data (SpecTransfer)              *)

TransferBuilt == pc = "done" /\ outcome.op = "transfer"

\* The amount as a number, for the amounts below 2^31.
SmallAmount ==
    /\ request.lamports[3] = 0 /\ request.lamports[4] = 0
    /\ request.lamports[2] < LimbModulus \div 2

AmountValue == request.lamports[2] * LimbModulus + request.lamports[1]

OneWholeUnit == 1000000000

\* C19: the data of the transfer instruction is 12 bytes, the prefix
\* 02 00 00 00 and then the little-endian bytes of the amount: byte k is
\* (v >> 8k) mod 256, so the eight bytes read back as v; for
\* v = 1,000,000,000 they are 00 CA 9A 3B 00 00 00 00.
C19_TransferPayload ==
    TransferBuilt =>
        /\ Len(wire.data) = 12
        /\ SubSeq(wire.data, 1, 4) = <<2, 0, 0, 0>>
        /\ \A k \in 5..12 : wire.data[k] \in 0..(Uint8Modulus - 1)
        /\ \A j \in 0..3 :
              wire.data[5 + 2 * j] + Uint8Modulus * wire.data[6 + 2 * j]
                  = request.lamports[j + 1]
        /\ SmallAmount =>
              /\ \A k \in 0..3 :
                    wire.data[5 + k] = (AmountValue \div (Uint8Modulus ^ k)) % Uint8Modulus
              /\ \A k \in 4..7 : wire.data[5 + k] = 0
        /\ (SmallAmount /\ AmountValue = OneWholeUnit) =>
              SubSeq(wire.data, 5, 12) = <<0, 202, 154, 59, 0, 0, 0, 0>>

\* The data for 1,000,000,000 was built.
C19_Witness ==
    /\ TransferBuilt
    /\ SmallAmount
    /\ AmountValue = OneWholeUnit
    /\ wire.data[6] = 202

\* The data for 2^64 - 1 was built: eight bytes FF.
TransferOfMaxAmount ==
    /\ TransferBuilt
    /\ \A j \in 1..4 : request.lamports[j] = LimbModulus - 1
    /\ \A k \in 5..12 : wire.data[k] = Uint8Modulus - 1

-----------------------------------------------------------------------------
(* Properties of the accounts ExecuteProposal appends (SpecExpand)         *)

Expanded == pc = "expanded"

\* The flag the four-bucket layout gives position i (from 0).
WritableByPosition(i) ==
    \/ i < txMsg.NumWritableSigners
    \/ (txMsg.NumSigners <= i
        /\ i < txMsg.NumSigners + txMsg.NumWritableNonSigners)

\* C20: ExecuteProposal marks the account at static position i writable if
\* and only if i < NumWritableSigners or NumSigners <= i < NumSigners +
\* NumWritableNonSigners, so that every account of a compiled message gets
\* back the writable flag the request gave it.
C20_WritableByPosition ==
    Expanded =>
        \A n \in DOMAIN decoded.metas :
            /\ decoded.metas[n].IsWritable <=> WritableByPosition(n - 1)
            /\ decoded.metas[n].IsWritable <=> RequestWritable(decoded.metas[n].PublicKey)

\* The accounts other than readonly signers do get the flag of their position.
WritableByPositionOffReadonlySigners ==
    Expanded =>
        \A n \in DOMAIN decoded.metas :
            (n - 1 < txMsg.NumWritableSigners \/ n - 1 >= txMsg.NumSigners) =>
                (decoded.metas[n].IsWritable <=> WritableByPosition(n - 1))

-----------------------------------------------------------------------------
(* Properties of the execute instruction's accounts (SpecExecuteAccounts)  *)

InstructionBuilt == pc = "built"

\* f[1] + ... + f[n]
RECURSIVE SumBetween(_, _, _)
SumBetween(f, lo, hi) ==
    IF lo > hi THEN 0
    ELSE IF lo = hi THEN f[lo]
    ELSE SumBetween(f, lo, (lo + hi) \div 2)
            + SumBetween(f, (lo + hi) \div 2 + 1, hi)
SumOver(f, n) == SumBetween(f, 1, n)

\* The number of keys the stored message references through its lookups.
LookupReferences ==
    SumOver([j \in 1..Len(txMsg.AddressTableLookups) |->
                Len(txMsg.AddressTableLookups[j].WritableIndexes)
                    + Len(txMsg.AddressTableLookups[j].ReadonlyIndexes)],
            Len(txMsg.AddressTableLookups))

\* C21: the execute instruction carries the four base accounts followed by
\* every account the stored message references, its static keys and every
\* key referenced through its address-table lookups, in stored order with
\* none omitted.
C21_EveryReferencedAccount ==
    InstructionBuilt =>
        /\ SubSeq(decoded.accounts, 1, 4) = BaseAccounts
        /\ SubSeq(decoded.accounts, 5, 4 + Len(txMsg.AccountKeys)) = txMsg.AccountKeys
        /\ Len(decoded.accounts) = 4 + Len(txMsg.AccountKeys) + LookupReferences

\* The base accounts and the static keys are carried, in stored order.
BaseAndStaticAccounts ==
    InstructionBuilt =>
        /\ SubSeq(decoded.accounts, 1, 4) = BaseAccounts
        /\ SubSeq(decoded.accounts, 5, Len(decoded.accounts)) = txMsg.AccountKeys

-----------------------------------------------------------------------------
(* Properties of the resolver and of lookup extraction (SpecCompile)       *)

Programs ==
    {request.instructions[n].ProgramID : n \in DOMAIN request.instructions}

ResolvedKeys == CompileKeys(request.instructions, request.payer)

\* C22: every address some instruction uses as its program is marked
\* invoked by the resolver and stays in the static account list, even when
\* a supplied lookup table contains it; being a program alone sets neither
\* its signer nor its writable flag.
C22_ProgramsStayStatic ==
    Compiled =>
        \A p \in Programs :
            /\ ResolvedKeys[p].IsInvoked
            /\ p \in StaticKeys
            /\ ResolvedKeys[p].IsSigner <=> RequestSigner(p)
            /\ ResolvedKeys[p].IsWritable <=> RequestWritable(p)

\* What the resolver does keep for a program: no flag from being one.
ProgramFlagsFromAccountsOnly ==
    Compiled =>
        \A p \in Programs :
            /\ ResolvedKeys[p].IsSigner <=> RequestSigner(p)
            /\ ResolvedKeys[p].IsWritable <=> RequestWritable(p)

\* The static list loses a program only to a lookup table.
ProgramsStayStaticWithoutTables ==
    (Compiled /\ request.tables = <<>>) => Programs \subseteq StaticKeys

-----------------------------------------------------------------------------
(* Properties of CompileKeys (SpecResolve)                                 *)

Resolved == pc = "resolved"

\* The instruction list in the order given by a list of its positions.
Reordered(order) == [i \in 1..Len(order) |-> request.instructions[order[i]]]

\* C23: the resolver returns exactly the fee payer, the program addresses
\* and the listed accounts; an address is a signer iff it is the fee payer or
\* some occurrence of it is a signer, and writable iff it is the fee payer or
\* some occurrence is writable, in whatever order the instructions come.
C23_ResolverFlags ==
    Resolved =>
        /\ DOMAIN decoded.keyMetaMap =
                {request.payer} \cup Programs
                    \cup {m.PublicKey : m \in RequestMetas}
        /\ \A a \in DOMAIN decoded.keyMetaMap :
                /\ decoded.keyMetaMap[a].IsSigner <=> RequestSigner(a)
                /\ decoded.keyMetaMap[a].IsWritable <=> RequestWritable(a)
        /\ \A order \in Orderings(DOMAIN request.instructions) :
                CompileKeys(Reordered(order), request.payer) = decoded.keyMetaMap

\* An address that is not the fee payer is listed as a signer and then,
\* by a later instruction, as a non-signer; it is resolved as a signer.
C23_Witness ==
    /\ Resolved
    /\ Len(request.instructions) = 2
    /\ request.payer # Key(2)
    /\ \E m \in Range(request.instructions[1].Accounts) :
            m.PublicKey = Key(2) /\ m.IsSigner
    /\ \E m \in Range(request.instructions[2].Accounts) :
            m.PublicKey = Key(2) /\ ~m.IsSigner
    /\ decoded.keyMetaMap[Key(2)].IsSigner

-----------------------------------------------------------------------------
(* Properties of lookup-table extraction (SpecExtract)                     *)

AllResolved ==
    {request.payer} \cup Programs \cup {m.PublicKey : m \in RequestMetas}

Occurrences(keys, a) == Cardinality({i \in DOMAIN keys : keys[i] = a})

\* The position in request.tables of the table a lookup entry names.
TableOf(lookup) ==
    CHOOSE n \in DOMAIN request.tables : request.tables[n].Key = lookup.AccountKey

\* idx is where the first supplied table holding a holds it first, and l
\* names that table.
FirstMatch(l, idx, a) ==
    /\ a \in AllResolved
    /\ ~RequestSigner(a)
    /\ \A n \in 1..(TableOf(l) - 1) : a \notin Range(request.tables[n].Addresses)
    /\ idx < Len(request.tables[TableOf(l)].Addresses)
    /\ \A j \in 1..idx : request.tables[TableOf(l)].Addresses[j] # a

\* C24: after compiling with any ordered list of lookup tables every
\* resolved address is exactly once in the combined key list, in the static
\* list or in one sub-list of the first supplied table containing it, by its
\* index in that table and in the sub-list of its writable flag; no signer is
\* extracted and a table that matches nothing adds no lookup entry.
C24_ExtractionPartitions ==
    Compiled =>
        /\ \A a \in AllResolved : Occurrences(CombinedKeys(txMsg), a) = 1
        /\ Len(CombinedKeys(txMsg)) = Cardinality(AllResolved)
        /\ \A a \in AllResolved : RequestSigner(a) => a \in StaticKeys
        /\ \A j \in DOMAIN txMsg.AddressTableLookups :
              LET l == txMsg.AddressTableLookups[j]
              IN /\ Len(l.WritableIndexes) + Len(l.ReadonlyIndexes) > 0
                 /\ \A i \in DOMAIN l.WritableIndexes :
                        /\ FirstMatch(l, l.WritableIndexes[i],
                                      TableEntry(l.AccountKey, l.WritableIndexes[i]))
                        /\ RequestWritable(TableEntry(l.AccountKey, l.WritableIndexes[i]))
                 /\ \A i \in DOMAIN l.ReadonlyIndexes :
                        /\ FirstMatch(l, l.ReadonlyIndexes[i],
                                      TableEntry(l.AccountKey, l.ReadonlyIndexes[i]))
                        /\ ~RequestWritable(TableEntry(l.AccountKey, l.ReadonlyIndexes[i]))
                 /\ \A k \in DOMAIN txMsg.AddressTableLookups :
                        k # j => txMsg.AddressTableLookups[k].AccountKey # l.AccountKey

\* Two tables hold the writable non-signer; it is entry 1 of the first of
\* them, which has an entry before it: one lookup entry naming that table
\* with writable indexes [1], and the address gone from the static list.
C24_Witness ==
    /\ Compiled
    /\ Len(request.tables) >= 2
    /\ Len(request.instructions[1].Accounts) = 1
    /\ request.instructions[1].Accounts[1].PublicKey \in
            Range(request.tables[2].Addresses)
    /\ Len(txMsg.AddressTableLookups) >= 1
    /\ txMsg.AddressTableLookups[1].AccountKey = TableKey(1)
    /\ txMsg.AddressTableLookups[1].WritableIndexes = <<1>>
    /\ request.instructions[1].Accounts[1].PublicKey \notin StaticKeys

-----------------------------------------------------------------------------
(* Properties of the transaction create command (SpecPropose)              *)

ProposeSubmitted == ProposeDone /\ submitted # <<>>

NextIndex == multisigAccount.transactionIndex + 1

\* C25: the propose operation builds one submission whose instructions are,
\* in order, create-vault-transaction, create-proposal and, only with
\* auto-approve, approve; the transaction account, the proposal account and
\* ProposalCreateArgs.TransactionIndex all come from the index n + 1.
C25_ProposeInstructions ==
    ProposeSubmitted =>
        /\ Len(submitted) = 1
        /\ Len(submitted[1].instructions) \in {2, 3}
        /\ Len(submitted[1].instructions) = 3 <=> outcome.action = "create+approve"
        /\ submitted[1].instructions[1].name = "VaultTransactionCreate"
        /\ submitted[1].instructions[1].account = [seed |-> "transaction", index |-> NextIndex]
        /\ submitted[1].instructions[2].name = "ProposalCreate"
        /\ submitted[1].instructions[2].account = [seed |-> "proposal", index |-> NextIndex]
        /\ submitted[1].instructions[2].TransactionIndex = NextIndex
        /\ Len(submitted[1].instructions) = 3 =>
              /\ submitted[1].instructions[3].name = "ProposalApprove"
              /\ submitted[1].instructions[3].account = [seed |-> "proposal", index |-> NextIndex]

\* A propose with auto-approve on a multisig that has transactions already.
C25_Witness ==
    /\ ProposeSubmitted
    /\ multisigAccount.transactionIndex > 0
    /\ Len(submitted[1].instructions) = 3
    /\ outcome.err = "ok"

-----------------------------------------------------------------------------
(* Properties of the transaction approve command (SpecApprove)             *)

Approved == pc = "done" /\ outcome.op = "approve" /\ outcome.err = "ok"

\* C26: after a successful approve the command reports that the threshold
\* is reached if and only if the approved vote set of the fetched proposal
\* has at least threshold members; otherwise it reports the positive number
\* threshold - approvedCount of approvals still needed.
C26_ThresholdReport ==
    Approved =>
        /\ outcome.reached <=> Approvals >= multisigAccount.threshold
        /\ ~outcome.reached =>
              (outcome.remaining = multisigAccount.threshold - Approvals
               /\ outcome.remaining > 0)

\* What the command does report: the threshold reached, after every
\* successful approve.
AlwaysReportsReached == Approved => outcome.reached

-----------------------------------------------------------------------------
(* Determinism of the compilation (SpecCompile)                            *)

\* The byte strings a compilation of request can produce.
PossibleEncodings ==
    {TransactionMessageEncodeWith(TxMsgOf(m)).bytes :
        m \in CompileToWrappedMessageV0(request.payer, request.instructions,
                                        request.tables)}

\* C27: compilation is deterministic: every compilation of the same
\* instruction list, fee payer and lookup tables yields the same message
\* and so the same bytes as the one that was produced.
C27_CompilationDeterministic ==
    Compiled => PossibleEncodings = {wire.bytes}

\* What does hold: the compilation is determined when no bucket of the key
\* map holds two addresses and no table drains two keys of one kind.
SingletonBuckets ==
    LET keyMetaMap == CompileKeys(request.instructions, request.payer)
    IN \A signer, writable \in BOOLEAN :
            Cardinality(Bucket(keyMetaMap, signer, writable)) <= 1
DeterministicWithSingletonBuckets ==
    (Compiled /\ SingletonBuckets) => PossibleEncodings = {wire.bytes}

-----------------------------------------------------------------------------
(* The proposer gate of the transaction create command (SpecPropose)       *)

\* The payer is listed in the fetched member list with an odd mask.
PayerMayPropose ==
    /\ outcome.caller \in DOMAIN multisigAccount.members
    /\ multisigAccount.members[outcome.caller] % 2 = 1

\* C28: the transaction create command submits nothing unless the payer is
\* in the fetched member list with the propose bit (mask & 1) set; for a
\* non-member or a member without the bit the command exits with an error
\* before the blockhash is fetched and before anything is signed or sent.
C28_ProposerGate ==
    (ProposeDone /\ ~PayerMayPropose) =>
        /\ submitted = <<>>
        /\ outcome.exit = 1
        /\ ~outcome.banner
        /\ \A i \in DOMAIN calls :
              calls[i] \notin {"getAccountBalance", "GetLatestBlockhash",
                               "SendAndConfirmTransaction", "GetSignatureStatuses"}

\* A member whose mask has the vote and execute bits but not the propose
\* bit is turned away although every collaborator answers.
C28_Witness ==
    /\ ProposeDone
    /\ outcome.caller \in DOMAIN multisigAccount.members
    /\ multisigAccount.members[outcome.caller] = PermissionVote + PermissionExecute
    /\ outcome.fault = "none"
    /\ outcome.err = "NotProposer"
    /\ submitted = <<>>

-----------------------------------------------------------------------------
(* Properties of the info command's recent-transactions loop (SpecInfo)    *)

InfoStarted == pc \in {"listing", "done"} /\ outcome.op = "info"
InfoDone == pc = "done" /\ outcome.op = "info"

\* a + 1 = b as numbers below 2^64: b is a with its lowest limbs that are
\* all ones cleared and the next limb raised by one.
IsSuccessor(a, b) ==
    \E i \in 1..4 :
        /\ \A j \in 1..(i - 1) : a[j] = LimbModulus - 1 /\ b[j] = 0
        /\ a[i] < LimbModulus - 1 /\ b[i] = a[i] + 1
        /\ \A j \in (i + 1)..4 : b[j] = a[j]

\* min(n, 5) of an index held in limbs
RecentCount(n) ==
    IF n[2] = 0 /\ n[3] = 0 /\ n[4] = 0 /\ n[1] < RecentLimit
    THEN n[1] ELSE RecentLimit

\* The lines printed so far start at n and go down by one, none is index 0,
\* and there are at most min(n, 5) of them.
RecentVisits ==
    InfoStarted =>
        /\ Len(outcome.lines) <= RecentCount(multisigAccount.transactionIndex)
        /\ \A k \in DOMAIN outcome.lines :
              /\ outcome.lines[k].index # Uint64Of(0)
              /\ k = 1 => outcome.lines[k].index = multisigAccount.transactionIndex
              /\ k > 1 => IsSuccessor(outcome.lines[k].index,
                                      outcome.lines[k - 1].index)
        /\ outcome.none <=> multisigAccount.transactionIndex = Uint64Of(0)
        /\ InfoDone =>
              Len(outcome.lines) = RecentCount(multisigAccount.transactionIndex)

\* C29: for every transaction index n of 64 bits the recent-transactions
\* loop terminates and lists exactly n, n-1, ..., n - min(n,5) + 1 in
\* descending order: min(n,5) lines, never index 0, never an index that
\* wrapped below zero, and 'No transactions created yet.' only for n = 0.
C29_RecentTransactions == []RecentVisits /\ <>InfoDone

\* A listing of five lines that crosses a limb boundary: 65537 down to 65533.
C29_Witness ==
    /\ InfoDone
    /\ multisigAccount.transactionIndex = <<1, 1, 0, 0>>
    /\ Len(outcome.lines) = RecentLimit
    /\ outcome.lines[RecentLimit].index = <<LimbModulus - 3, 0, 0, 0>>

-----------------------------------------------------------------------------
(* Properties of the encoder on long lists (SpecLarge)                     *)

LargeEncoded == pc \in {"encoded", "decoded"} /\ wire.from = "compiled"

\* The bytes the entries of the message take, without the length prefixes
\* of the three top-level lists and the three counts.
InstructionsSize(tm) ==
    SumOver([n \in 1..Len(tm.Instructions) |->
                4 + Len(tm.Instructions[n].AccountIndexes)
                  + Len(tm.Instructions[n].Data)],
            Len(tm.Instructions))
LookupsSize(tm) ==
    SumOver([n \in 1..Len(tm.AddressTableLookups) |->
                PublicKeyLength + 2
                  + Len(tm.AddressTableLookups[n].WritableIndexes)
                  + Len(tm.AddressTableLookups[n].ReadonlyIndexes)],
            Len(tm.AddressTableLookups))

\* Some list has more entries than one byte counts, or some compiled index
\* is above 255.
Oversized ==
    \/ request.size >= Uint8Modulus
    \/ \E n \in DOMAIN request.compiled.Instructions :
          \/ request.compiled.Instructions[n].ProgramIDIndex >= Uint8Modulus
          \/ \E i \in DOMAIN request.compiled.Instructions[n].Accounts :
                request.compiled.Instructions[n].Accounts[i] >= Uint8Modulus

\* Decoding gave back the lists and the indexes of the compiled message.
Reproduced ==
    /\ decoded.err = "nil"
    /\ decoded.val.AccountKeys = request.compiled.AccountKeys
    /\ decoded.val.AddressTableLookups = request.compiled.AddressTableLookups
    /\ Len(decoded.val.Instructions) = Len(request.compiled.Instructions)
    /\ \A n \in DOMAIN decoded.val.Instructions :
          /\ decoded.val.Instructions[n].ProgramIdIndex
                = request.compiled.Instructions[n].ProgramIDIndex
          /\ decoded.val.Instructions[n].AccountIndexes
                = request.compiled.Instructions[n].Accounts

\* Every list is written whole behind a prefix of its length modulo 256,
\* and every compiled index is narrowed modulo 256.
WrittenWhole ==
    /\ Len(wire.bytes) = 3 + 1 + PublicKeyLength * Len(txMsg.AccountKeys)
                          + 1 + InstructionsSize(txMsg)
                          + 1 + LookupsSize(txMsg)
    /\ wire.bytes[4] = Len(txMsg.AccountKeys) % Uint8Modulus
    /\ wire.bytes[5 + PublicKeyLength * Len(txMsg.AccountKeys)]
            = Len(txMsg.Instructions) % Uint8Modulus
    /\ wire.bytes[6 + PublicKeyLength * Len(txMsg.AccountKeys)
                    + InstructionsSize(txMsg)]
            = Len(txMsg.AddressTableLookups) % Uint8Modulus
    /\ \A n \in DOMAIN txMsg.Instructions :
          /\ txMsg.Instructions[n].ProgramIdIndex
                = request.compiled.Instructions[n].ProgramIDIndex % Uint8Modulus
          /\ \A i \in DOMAIN txMsg.Instructions[n].AccountIndexes :
                txMsg.Instructions[n].AccountIndexes[i]
                    = request.compiled.Instructions[n].Accounts[i] % Uint8Modulus

\* C30: the encoder checks no list size: for every message, also one with
\* a list of more than 255 account keys, instructions, account indexes or
\* lookups, it returns no error and writes every entry behind the prefix
\* len mod 256, a compiled index above 255 is narrowed modulo 256, and the
\* bytes of such a message do not decode to the original.
C30_EncoderNoBoundCheck ==
    LargeEncoded =>
        /\ wire.err = "nil"
        /\ WrittenWhole
        /\ (pc = "decoded" /\ Oversized) => ~Reproduced

\* What does hold: the statement for the messages without lookups.
NoBoundCheckWithoutLookups ==
    (LargeEncoded /\ request.compiled.AddressTableLookups = <<>>) =>
        /\ wire.err = "nil"
        /\ WrittenWhole
        /\ (pc = "decoded" /\ Oversized) => ~Reproduced
        /\ (pc = "decoded" /\ ~Oversized) => Reproduced

\* The encoder's answer to every message that holds a lookup.
LookupsNeverEncode ==
    (LargeEncoded /\ request.compiled.AddressTableLookups # <<>>) =>
        wire.err = "unsupported type"

====
